---- MODULE Spec2Model ----
(***************************************************************************)
(* Connection lifecycle and safe query execution of pgAdminTUI:            *)
(*   src/src/core/connection_manager.py  DatabaseConnection,               *)
(*                                        ConnectionManager                *)
(*   src/src/core/query_executor.py      SecurityGuard, QueryExecutor      *)
(*                                                                         *)
(* The program runs on one asyncio event loop: a coroutine runs without    *)
(* interruption from one await to the next.  The variable cur names the    *)
(* task that is inside such a synchronous stretch; while it is set only    *)
(* that task steps, and a task gives it up where the code awaits (pool     *)
(* open, pool close, probe, statement, sleep, gather).                     *)
(***************************************************************************)
EXTENDS Integers, Sequences, FiniteSets, TLC

(* ----------------------------- bounds --------------------------------- *)

\* retry_attempts of the modelled target (DatabaseConfig default: 3).
RetryAttempts == 2

\* The application registers at most this many callbacks on a record.
MaxCallbacks == 2

\* retry_delay of the modelled target, in milliseconds (the default).
RetryDelay == 1000

\* Callers stop asking for connections to a record whose retry_count has
\* reached this cap, which keeps retry_count finite.
MaxRetryCount == 3

\* Under SpecExec the application makes no further executor call once this
\* many results are recorded.
MaxRecordedExec == 2

\* Under SpecHistory the application makes no further executor call once
\* this many results are recorded.
MaxRecorded == 1500

(* ----------------------------- names ---------------------------------- *)

\* Target names a caller may pass; "b" is never registered under Spec.
Names == {"a", "b"}
NoName == "none"

\* DatabaseConfig.name is any str: Empty is the name "", which Python's
\* truth test takes for an absent one.  Keys are the possible keys of
\* self.connections.
Empty == ""
Keys == Names \cup {Empty}

\* DatabaseConnection objects; under Spec only the first is ever created.
Recs == {1, 2}
NoRec == 0

\* Tasks of the event loop: two callers, the health-check loop, and the
\* reconnect tasks created by the loop (asyncio.create_task), one for each
\* record a pass can find failing.
UserTasks == {"u1", "u2"}
LoopTask == "hc"
SpawnTasks == {"s1", "s2"}
Tasks == UserTasks \cup {LoopTask} \cup SpawnTasks
NoTask == "none"

\* ConnectionStatus
NOT_ATTEMPTED == "not_attempted"
CONNECTING == "connecting"
CONNECTED == "connected"
DISCONNECTED == "disconnected"
FAILED == "failed"
RECONNECTING == "reconnecting"
ConnectionStatus ==
  {NOT_ATTEMPTED, CONNECTING, CONNECTED, DISCONNECTED, FAILED, RECONNECTING}

\* Python values.
None == "None"
True == "True"
False == "False"
Pool == "Pool"
Err == "error"
Stamp == "datetime"

VARIABLES
  \* ConnectionManager
  connections,         \* self.connections: name -> record object (NoRec: absent)
  order,               \* insertion order of the keys of self.connections
  active_connection,   \* self.active_connection
  health_check_task,   \* self._health_check_task is set
  \* DatabaseConnection, per record object
  status, pool, last_error, retry_count, last_health_check,
  \* tasks
  pc,                  \* where each task is
  op,                  \* the operation a task is running
  rec,                 \* the record object the task is working on
  todo,                \* records a task has still to visit
  closing,             \* disconnect_all: records whose pool.close() is awaited
  delay,               \* reconnect(): the milliseconds its sleep lasts (0: not asleep)
  lazy,                \* connect_all: its argument
  results,             \* connect_all: its dict, name -> value stored (None: no entry)
  result,              \* value returned by the record method that just returned
  outcome,             \* connect(): what its awaits did ("open", "probe", "ok");
                       \* the loop: what became of its iterator ("resized", "logged")
  ret,                 \* value returned by the finished operation
  cur,                 \* the task inside a synchronous stretch
  notified,            \* record whose callbacks ran in the last step
  callbacks,           \* self.callbacks of each record object, in order
  called,              \* the calls _notify_callbacks made in the last step
  \* SecurityGuard
  read_only_mode, blacklist_enabled, whitelist_enabled,
  blacklist_rules, whitelist_rules,
  \* QueryExecutor
  transaction_active, dry_run_mode, auto_transaction,
  query_history,       \* self.query_history: the recorded results, oldest first
  \* the QueryExecutor call in progress
  xpc,                 \* where the call is
  xop,                 \* execute, or the transaction method that calls it
  query, skip_safety,  \* arguments of execute
  confirm_callback,    \* the callback supplied: none, or how it answers
  confirm,             \* what the callback did in this call
  needs_transaction,   \* the local of execute
  db_calls,            \* calls made on the pooled handle, with their outcome
  xresult              \* the QueryResult returned (or the exception raised)

connVars == <<connections, order, active_connection, health_check_task>>
recVars == <<status, pool, last_error, retry_count, last_health_check>>
taskVars == <<pc, op, rec, todo, closing, delay, lazy, results, result, outcome,
              ret, cur>>
guardVars == <<read_only_mode, blacklist_enabled, whitelist_enabled,
               blacklist_rules, whitelist_rules>>
executorVars == <<transaction_active, dry_run_mode, auto_transaction>>
callVars == <<xpc, xop, query, skip_safety, confirm_callback, confirm,
              needs_transaction, db_calls, xresult>>
execVars == <<guardVars, executorVars, callVars, query_history>>
managerVars == <<connVars, recVars, taskVars, notified, callbacks, called>>
vars == <<managerVars, execVars>>

(* ------------------------- ConnectionManager -------------------------- *)

\* self.connections.values(), in insertion order
Values == [i \in 1..Len(order) |-> connections[order[i]]]

\* bool(name) for a name that is a str or None
Truthy(name) == name # NoName /\ name # Empty

\* get_active_connection
get_active_connection ==
  IF Truthy(active_connection) THEN connections[active_connection] ELSE NoRec

\* The dict connect_all starts with: no name has an entry.
NoResults == [n \in Keys |-> None]

(* ------------------------------ Init ---------------------------------- *)

\* After ConnectionManager() and add_database(DatabaseConfig(name="a")):
\* one record in NOT_ATTEMPTED, active since it was the first one added.
InitManager ==
  /\ connections = [n \in Keys |-> IF n = "a" THEN 1 ELSE NoRec]
  /\ order = <<"a">>
  /\ active_connection = "a"
  /\ health_check_task = FALSE

InitRecords ==
  /\ status = [r \in Recs |-> NOT_ATTEMPTED]
  /\ pool = [r \in Recs |-> None]
  /\ last_error = [r \in Recs |-> None]
  /\ retry_count = [r \in Recs |-> 0]
  /\ last_health_check = [r \in Recs |-> None]
  /\ callbacks = [r \in Recs |-> <<>>]

InitTasks ==
  /\ pc = [t \in Tasks |->
             IF t \in UserTasks THEN "idle"
             ELSE IF t = LoopTask THEN "off" ELSE "free"]
  /\ op = [t \in Tasks |-> "none"]
  /\ rec = [t \in Tasks |-> NoRec]
  /\ todo = [t \in Tasks |-> <<>>]
  /\ closing = [t \in Tasks |-> {}]
  /\ delay = [t \in Tasks |-> 0]
  /\ lazy = [t \in Tasks |-> FALSE]
  /\ results = [t \in Tasks |-> NoResults]
  /\ result = [t \in Tasks |-> None]
  /\ outcome = [t \in Tasks |-> "none"]
  /\ ret = [t \in Tasks |-> None]
  /\ cur = NoTask
  /\ notified = NoRec
  /\ called = <<>>

(* ------------------------ DatabaseConnection -------------------------- *)

\* The status callbacks an application registers: one returns, one raises
\* an Exception.
Callbacks == {"cb_returns", "cb_raises"}
Raises(callback) == callback = "cb_raises"

\* One call callback(self): the callback, the record it was given, the
\* status the record had when it was called, and whether it raised.
Call(callback, r) ==
  [callback |-> callback, record |-> r, status |-> status'[r],
   raised |-> Raises(callback)]

\* Variant of _notify_callbacks: the loop ends at the first callback that
\* raises.
_notify_callbacks_until_raise(r) ==
  LET n == Len(callbacks[r])
      stop == {i \in 1..n : Raises(callbacks[r][i])}
      last == IF stop = {} THEN n ELSE CHOOSE i \in stop : \A j \in stop : i <= j
  IN [i \in 1..last |-> Call(callbacks[r][i], r)]

\* _notify_callbacks(), lines 166-170: each callback of the list is called
\* in turn with the record as it is now; an Exception a callback raises is
\* logged and the loop goes on.
_notify_callbacks(r) ==
  [i \in 1..Len(callbacks[r]) |-> Call(callbacks[r][i], r)]

\* A step of a method: it runs self._notify_callbacks() on record r after
\* its assignments, or (NoRec) does not run it; the list is left as it is.
Notify(r) ==
  /\ notified' = r
  /\ called' = IF r = NoRec THEN <<>> ELSE _notify_callbacks(r)
  /\ UNCHANGED callbacks

\* add_callback(), line 162, called by the application between two steps
\* of the tasks.
add_callback(r, callback) ==
  /\ cur = NoTask
  /\ \E n \in Keys : connections[n] = r
  /\ Len(callbacks[r]) < MaxCallbacks
  /\ callbacks' = [callbacks EXCEPT ![r] = Append(@, callback)]
  /\ notified' = NoRec
  /\ called' = <<>>
  /\ UNCHANGED <<connVars, recVars, taskVars>>
  /\ UNCHANGED execVars

\* Variant of connect_begin: the status is not set to CONNECTING.
connect_begin_silent(t) ==
  /\ pc[t] = "c_begin" /\ cur = t
  /\ UNCHANGED status
  /\ Notify(rec[t])
  /\ pool' = [pool EXCEPT ![rec[t]] = Pool]
  /\ pc' = [pc EXCEPT ![t] = "c_open"]
  /\ outcome' = [outcome EXCEPT ![t] = "none"]
  /\ cur' = NoTask
  /\ UNCHANGED <<connVars, last_error, retry_count, last_health_check,
                 op, rec, todo, closing, delay, lazy, results, result, ret>>
  /\ UNCHANGED execVars

\* connect(), lines 76-91: CONNECTING, notify, build the pool object, then
\* await self.pool.open().
connect_begin(t) ==
  /\ pc[t] = "c_begin" /\ cur = t
  /\ status' = [status EXCEPT ![rec[t]] = CONNECTING]
  /\ Notify(rec[t])
  /\ pool' = [pool EXCEPT ![rec[t]] = Pool]
  /\ pc' = [pc EXCEPT ![t] = "c_open"]
  /\ outcome' = [outcome EXCEPT ![t] = "none"]
  /\ cur' = NoTask
  /\ UNCHANGED <<connVars, last_error, retry_count, last_health_check,
                 op, rec, todo, closing, delay, lazy, results, result, ret>>
  /\ UNCHANGED execVars

\* Variant of connect_failed: the failure is counted twice.
connect_failed_twice_counted(t) ==
  /\ status' = [status EXCEPT ![rec[t]] = FAILED]
  /\ last_error' = [last_error EXCEPT ![rec[t]] = Err]
  /\ retry_count' = [retry_count EXCEPT ![rec[t]] = @ + 2]
  /\ Notify(rec[t])
  /\ result' = [result EXCEPT ![t] = False]
  /\ pc' = [pc EXCEPT ![t] = "c_ret"]
  /\ cur' = t
  /\ UNCHANGED <<connVars, pool, last_health_check, op, rec, todo, closing, delay, lazy, results, ret>>

\* connect(), lines 106-113: the except branch.
connect_failed(t) ==
  /\ status' = [status EXCEPT ![rec[t]] = FAILED]
  /\ last_error' = [last_error EXCEPT ![rec[t]] = Err]
  /\ retry_count' = [retry_count EXCEPT ![rec[t]] = @ + 1]
  /\ Notify(rec[t])
  /\ result' = [result EXCEPT ![t] = False]
  /\ pc' = [pc EXCEPT ![t] = "c_ret"]
  /\ cur' = t
  /\ UNCHANGED <<connVars, pool, last_health_check, op, rec, todo, closing, delay, lazy, results, ret>>

\* connect(), lines 97-104: the probe has succeeded.
connect_succeeded(t) ==
  /\ status' = [status EXCEPT ![rec[t]] = CONNECTED]
  /\ last_error' = [last_error EXCEPT ![rec[t]] = None]
  /\ retry_count' = [retry_count EXCEPT ![rec[t]] = 0]
  /\ Notify(rec[t])
  /\ result' = [result EXCEPT ![t] = True]
  /\ pc' = [pc EXCEPT ![t] = "c_ret"]
  /\ cur' = t
  /\ UNCHANGED <<connVars, pool, last_health_check, op, rec, todo, closing, delay, lazy, results, ret>>

\* connect(), lines 91-94: pool.open() returns or raises; on return
\* self.pool is read again for self.pool.connection(), and a pool set to
\* None meanwhile raises AttributeError into the except branch.  outcome
\* records what the awaits did.
connect_open_done(t) ==
  /\ pc[t] = "c_open" /\ cur = NoTask
  /\ \E ok \in BOOLEAN :
       /\ outcome' = [outcome EXCEPT ![t] =
                        IF ~ok THEN "open"
                        ELSE IF pool[rec[t]] = None THEN "nopool" ELSE "opened"]
       /\ IF ~ok \/ pool[rec[t]] = None
          THEN connect_failed(t)
          ELSE /\ pc' = [pc EXCEPT ![t] = "c_probe"]
               /\ Notify(NoRec)
               /\ UNCHANGED <<connVars, recVars, op, rec, todo, closing, delay, lazy, results, result,
                              ret, cur>>
  /\ UNCHANGED execVars

\* Variant of connect_probe_done: a probe that raised is taken as a success.
connect_probe_done_always_succeeds(t) ==
  /\ pc[t] = "c_probe" /\ cur = NoTask
  /\ \E ok \in BOOLEAN :
       /\ outcome' = [outcome EXCEPT ![t] = IF ok THEN "ok" ELSE "probe"]
       /\ connect_succeeded(t)
  /\ UNCHANGED execVars

\* connect(), lines 94-95: the probe statement returns or raises.
connect_probe_done(t) ==
  /\ pc[t] = "c_probe" /\ cur = NoTask
  /\ \E ok \in BOOLEAN :
       /\ outcome' = [outcome EXCEPT ![t] = IF ok THEN "ok" ELSE "probe"]
       /\ IF ok THEN connect_succeeded(t) ELSE connect_failed(t)
  /\ UNCHANGED execVars

\* disconnect(), lines 117-123: with a pool, await its close(); without,
\* DISCONNECTED at once.
disconnect_begin(t) ==
  /\ pc[t] = "d_begin" /\ cur = t
  /\ IF pool[rec[t]] # None
     THEN /\ pc' = [pc EXCEPT ![t] = "d_close"]
          /\ cur' = NoTask
          /\ Notify(NoRec)
          /\ UNCHANGED status
     ELSE /\ status' = [status EXCEPT ![rec[t]] = DISCONNECTED]
          /\ Notify(rec[t])
          /\ pc' = [pc EXCEPT ![t] = "d_ret"]
          /\ UNCHANGED cur
  /\ UNCHANGED <<connVars, pool, last_error, retry_count, last_health_check,
                 op, rec, todo, closing, delay, lazy, results, result, outcome, ret>>
  /\ UNCHANGED execVars

\* disconnect(), lines 118-122: close() returned, or raised out of
\* disconnect() with the record untouched.
disconnect_close_done(t) ==
  /\ pc[t] = "d_close" /\ cur = NoTask
  /\ \E ok \in BOOLEAN :
       IF ok
       THEN /\ pool' = [pool EXCEPT ![rec[t]] = None]
            /\ status' = [status EXCEPT ![rec[t]] = DISCONNECTED]
            /\ Notify(rec[t])
            /\ pc' = [pc EXCEPT ![t] = "d_ret"]
            /\ UNCHANGED ret
       ELSE /\ pc' = [pc EXCEPT ![t] = "done"]
            /\ ret' = [ret EXCEPT ![t] = "raised"]
            /\ Notify(NoRec)
            /\ UNCHANGED <<pool, status>>
  /\ cur' = t
  /\ UNCHANGED <<connVars, last_error, retry_count, last_health_check,
                 op, rec, todo, closing, delay, lazy, results, result, outcome>>
  /\ UNCHANGED execVars

\* Variant of health_check_begin: any record with a pool is probed,
\* whatever its status.
health_check_begin_unguarded(t) ==
  /\ pc[t] = "h_begin" /\ cur = t
  /\ IF pool[rec[t]] = None
     THEN /\ result' = [result EXCEPT ![t] = False]
          /\ pc' = [pc EXCEPT ![t] = "h_ret"]
          /\ UNCHANGED cur
     ELSE /\ pc' = [pc EXCEPT ![t] = "h_probe"]
          /\ cur' = NoTask
          /\ UNCHANGED result
  /\ Notify(NoRec)
  /\ UNCHANGED <<connVars, recVars, op, rec, todo, closing, delay, lazy, results, outcome, ret>>
  /\ UNCHANGED execVars

\* health_check(), lines 127-131: refuse unless CONNECTED with a pool, else
\* await the probe.
health_check_begin(t) ==
  /\ pc[t] = "h_begin" /\ cur = t
  /\ IF pool[rec[t]] = None \/ status[rec[t]] # CONNECTED
     THEN /\ result' = [result EXCEPT ![t] = False]
          /\ pc' = [pc EXCEPT ![t] = "h_ret"]
          /\ UNCHANGED cur
     ELSE /\ pc' = [pc EXCEPT ![t] = "h_probe"]
          /\ cur' = NoTask
          /\ UNCHANGED result
  /\ Notify(NoRec)
  /\ UNCHANGED <<connVars, recVars, op, rec, todo, closing, delay, lazy, results, outcome, ret>>
  /\ UNCHANGED execVars

\* Variant of health_check_probe_done: a failed probe marks the record
\* RECONNECTING.
health_check_probe_done_reconnecting(t) ==
  /\ pc[t] = "h_probe" /\ cur = NoTask
  /\ \E ok \in BOOLEAN :
       IF ok
       THEN /\ last_health_check' = [last_health_check EXCEPT ![rec[t]] = Stamp]
            /\ result' = [result EXCEPT ![t] = True]
            /\ Notify(NoRec)
            /\ UNCHANGED <<status, last_error>>
       ELSE /\ status' = [status EXCEPT ![rec[t]] = RECONNECTING]
            /\ last_error' = [last_error EXCEPT ![rec[t]] = Err]
            /\ Notify(rec[t])
            /\ result' = [result EXCEPT ![t] = False]
            /\ UNCHANGED last_health_check
  /\ pc' = [pc EXCEPT ![t] = "h_ret"]
  /\ cur' = t
  /\ UNCHANGED <<connVars, pool, retry_count, op, rec, todo, closing, delay, lazy, results, outcome, ret>>
  /\ UNCHANGED execVars

\* health_check(), lines 131-142: the probe returned or raised.
health_check_probe_done(t) ==
  /\ pc[t] = "h_probe" /\ cur = NoTask
  /\ \E ok \in BOOLEAN :
       IF ok
       THEN /\ last_health_check' = [last_health_check EXCEPT ![rec[t]] = Stamp]
            /\ result' = [result EXCEPT ![t] = True]
            /\ Notify(NoRec)
            /\ UNCHANGED <<status, last_error>>
       ELSE /\ status' = [status EXCEPT ![rec[t]] = DISCONNECTED]
            /\ last_error' = [last_error EXCEPT ![rec[t]] = Err]
            /\ Notify(rec[t])
            /\ result' = [result EXCEPT ![t] = False]
            /\ UNCHANGED last_health_check
  /\ pc' = [pc EXCEPT ![t] = "h_ret"]
  /\ cur' = t
  /\ UNCHANGED <<connVars, pool, retry_count, op, rec, todo, closing, delay, lazy, results, outcome, ret>>
  /\ UNCHANGED execVars

\* reconnect(), line 154: the delay, retry_delay * 2 ** retry_count / 1000
\* seconds, in milliseconds.
Backoff(r) == RetryDelay * 2 ^ retry_count[r]

\* Variant of reconnect_begin: a reconnect() refuses while another task is
\* between the RECONNECTING step and the end of connect() on the record.
reconnect_begin_guarded(t) ==
  /\ pc[t] = "r_begin"
  /\ cur = t \/ (cur = NoTask /\ t \in SpawnTasks)
  /\ IF \/ retry_count[rec[t]] >= RetryAttempts
        \/ \E u \in Tasks \ {t} :
             /\ op[u] = "reconnect" /\ rec[u] = rec[t]
             /\ pc[u] \notin {"r_begin", "done"}
     THEN /\ ret' = [ret EXCEPT ![t] = False]
          /\ pc' = [pc EXCEPT ![t] = "done"]
          /\ cur' = t
          /\ Notify(NoRec)
          /\ UNCHANGED <<status, delay>>
     ELSE /\ status' = [status EXCEPT ![rec[t]] = RECONNECTING]
          /\ Notify(rec[t])
          /\ delay' = [delay EXCEPT ![t] = Backoff(rec[t])]
          /\ pc' = [pc EXCEPT ![t] = "r_sleep"]
          /\ cur' = NoTask
          /\ UNCHANGED ret
  /\ UNCHANGED <<connVars, pool, last_error, retry_count, last_health_check,
                 op, rec, todo, closing, lazy, results, result, outcome>>
  /\ UNCHANGED execVars

\* Variant of reconnect_begin: one attempt more than retry_attempts.
reconnect_begin_one_more(t) ==
  /\ pc[t] = "r_begin"
  /\ cur = t \/ (cur = NoTask /\ t \in SpawnTasks)
  /\ IF retry_count[rec[t]] > RetryAttempts
     THEN /\ ret' = [ret EXCEPT ![t] = False]
          /\ pc' = [pc EXCEPT ![t] = "done"]
          /\ cur' = t
          /\ Notify(NoRec)
          /\ UNCHANGED <<status, delay>>
     ELSE /\ status' = [status EXCEPT ![rec[t]] = RECONNECTING]
          /\ Notify(rec[t])
          /\ delay' = [delay EXCEPT ![t] = Backoff(rec[t])]
          /\ pc' = [pc EXCEPT ![t] = "r_sleep"]
          /\ cur' = NoTask
          /\ UNCHANGED ret
  /\ UNCHANGED <<connVars, pool, last_error, retry_count, last_health_check,
                 op, rec, todo, closing, lazy, results, result, outcome>>
  /\ UNCHANGED execVars

\* reconnect(), lines 146-155: refuse at the retry ceiling, else
\* RECONNECTING, notify and sleep.  A task made by create_task starts here
\* when the event loop first runs it.
reconnect_begin(t) ==
  /\ pc[t] = "r_begin"
  /\ cur = t \/ (cur = NoTask /\ t \in SpawnTasks)
  /\ IF retry_count[rec[t]] >= RetryAttempts
     THEN /\ ret' = [ret EXCEPT ![t] = False]
          /\ pc' = [pc EXCEPT ![t] = "done"]
          /\ cur' = t
          /\ Notify(NoRec)
          /\ UNCHANGED <<status, delay>>
     ELSE /\ status' = [status EXCEPT ![rec[t]] = RECONNECTING]
          /\ Notify(rec[t])
          /\ delay' = [delay EXCEPT ![t] = Backoff(rec[t])]
          /\ pc' = [pc EXCEPT ![t] = "r_sleep"]
          /\ cur' = NoTask
          /\ UNCHANGED ret
  /\ UNCHANGED <<connVars, pool, last_error, retry_count, last_health_check,
                 op, rec, todo, closing, lazy, results, result, outcome>>
  /\ UNCHANGED execVars

\* Variant of reconnect_sleep_done: connect() is run without disconnect().
reconnect_sleep_done_no_disconnect(t) ==
  /\ pc[t] = "r_sleep" /\ cur = NoTask
  /\ pc' = [pc EXCEPT ![t] = "c_begin"]
  /\ delay' = [delay EXCEPT ![t] = 0]
  /\ cur' = t
  /\ Notify(NoRec)
  /\ UNCHANGED <<connVars, recVars, op, rec, todo, closing, lazy, results, result, outcome, ret>>
  /\ UNCHANGED execVars

\* reconnect(), lines 155-157: the sleep is over, disconnect() is called.
reconnect_sleep_done(t) ==
  /\ pc[t] = "r_sleep" /\ cur = NoTask
  /\ pc' = [pc EXCEPT ![t] = "d_begin"]
  /\ delay' = [delay EXCEPT ![t] = 0]
  /\ cur' = t
  /\ Notify(NoRec)
  /\ UNCHANGED <<connVars, recVars, op, rec, todo, closing, lazy, results, result, outcome, ret>>
  /\ UNCHANGED execVars

(* ---------------- returns of the record methods ----------------------- *)

\* Slots free for a task made by asyncio.create_task(conn.reconnect()).
FreeSlots == {s \in SpawnTasks : pc[s] = "free"}

\* Variant of connect_all_finish: the loop task is created without looking
\* at self._health_check_task.
connect_all_finish_unguarded(t) ==
  /\ health_check_task' = TRUE
  /\ pc' = [pc EXCEPT ![t] = "done", ![LoopTask] = "l_wait"]
  /\ op' = [op EXCEPT ![t] = "connect_all", ![LoopTask] = "loop"]
  /\ ret' = [ret EXCEPT ![t] = "results"]

\* connect_all(), lines 219-223: start the health-check loop unless one is
\* registered, and return the results.
connect_all_finish(t) ==
  /\ health_check_task' = TRUE
  /\ pc' = [pc EXCEPT ![t] = "done",
                      ![LoopTask] = IF health_check_task THEN @ ELSE "l_wait"]
  /\ op' = [op EXCEPT ![t] = "connect_all", ![LoopTask] = "loop"]
  /\ ret' = [ret EXCEPT ![t] = "results"]

\* The key under which connect_all stores the value connect() has just
\* returned.  Lazy (line 209): results[self.active_connection] = await ...,
\* where Python evaluates the awaited value first and the subscript after
\* it, so the key is the active name as it is once connect() has returned.
\* Otherwise (lines 213-217) the name was taken from
\* self.connections.items() before the first await; a dict keeps a key at
\* its position, so it is the next key in insertion order.
results_key(t) ==
  IF lazy[t]
    THEN active_connection
    ELSE order[Cardinality({k \in Keys : results[t][k] # None}) + 1]

\* connect() has returned to its caller: connect_database (line 232) and
\* reconnect (line 158) return its value; connect_all (lines 209, 217)
\* stores it under results_key and goes on; execute_query (lines 281-285) returns None on
\* False and otherwise acquires a handle from conn.pool, which raises
\* AttributeError when the pool has been set to None meanwhile.
connect_return(t) ==
  /\ pc[t] = "c_ret" /\ cur = t
  /\ Notify(NoRec)
  /\ outcome' = [outcome EXCEPT ![t] = "none"]
  /\ result' = [result EXCEPT ![t] = None]
  /\ CASE op[t] \in {"connect_database", "reconnect"} ->
            /\ pc' = [pc EXCEPT ![t] = "done"]
            /\ ret' = [ret EXCEPT ![t] = result[t]]
            /\ UNCHANGED <<health_check_task, op, rec, todo, cur>>
       [] op[t] = "connect_all" /\ todo[t] # <<>> ->
            /\ rec' = [rec EXCEPT ![t] = Head(todo[t])]
            /\ todo' = [todo EXCEPT ![t] = Tail(@)]
            /\ pc' = [pc EXCEPT ![t] = "c_begin"]
            /\ UNCHANGED <<health_check_task, op, ret, cur>>
       [] op[t] = "connect_all" /\ todo[t] = <<>> ->
            /\ connect_all_finish(t)
            /\ UNCHANGED <<rec, todo, cur>>
       [] op[t] = "execute_query" /\ result[t] = False ->
            /\ pc' = [pc EXCEPT ![t] = "done"]
            /\ ret' = [ret EXCEPT ![t] = None]
            /\ UNCHANGED <<health_check_task, op, rec, todo, cur>>
       [] op[t] = "execute_query" /\ result[t] = True /\ pool[rec[t]] = None ->
            /\ pc' = [pc EXCEPT ![t] = "done"]
            /\ ret' = [ret EXCEPT ![t] = "raised"]
            /\ UNCHANGED <<health_check_task, op, rec, todo, cur>>
       [] op[t] = "execute_query" /\ result[t] = True /\ pool[rec[t]] # None ->
            /\ pc' = [pc EXCEPT ![t] = "q_exec"]
            /\ cur' = NoTask
            /\ UNCHANGED <<health_check_task, op, rec, todo, ret>>
  /\ results' = IF op[t] = "connect_all"
                  THEN [results EXCEPT ![t][results_key(t)] = result[t]]
                  ELSE results
  /\ UNCHANGED <<connections, order, active_connection, recVars, closing, delay, lazy>>
  /\ UNCHANGED execVars

\* disconnect() has returned: disconnect_database (line 237) is done,
\* reconnect (lines 157-158) goes straight on to connect().
disconnect_return(t) ==
  /\ pc[t] = "d_ret" /\ cur = t
  /\ Notify(NoRec)
  /\ IF op[t] = "reconnect"
     THEN /\ pc' = [pc EXCEPT ![t] = "c_begin"]
          /\ UNCHANGED ret
     ELSE /\ pc' = [pc EXCEPT ![t] = "done"]
          /\ ret' = [ret EXCEPT ![t] = None]
  /\ UNCHANGED <<connVars, recVars, op, rec, todo, closing, delay, lazy, results, result, outcome, cur>>
  /\ UNCHANGED execVars

\* Variant of health_check_return: the loop awaits the reconnect task it
\* has created before it goes on.
health_check_return_awaits(t) ==
  /\ pc[t] = "h_ret" /\ cur = t
  /\ Notify(NoRec)
  /\ result' = [result EXCEPT ![t] = None]
  /\ IF op[t] = "loop"
     THEN IF result[t] = False
          THEN LET s == CHOOSE x \in FreeSlots : TRUE IN
                 /\ FreeSlots # {}
                 /\ pc' = [pc EXCEPT ![t] = "l_join", ![s] = "r_begin"]
                 /\ op' = [op EXCEPT ![s] = "reconnect"]
                 /\ rec' = [rec EXCEPT ![s] = rec[t]]
                 /\ cur' = NoTask
                 /\ UNCHANGED ret
          ELSE /\ pc' = [pc EXCEPT ![t] = "l_iter"]
               /\ rec' = [rec EXCEPT ![t] = NoRec]
               /\ UNCHANGED <<op, ret, cur>>
     ELSE /\ pc' = [pc EXCEPT ![t] = "done"]
          /\ ret' = [ret EXCEPT ![t] = result[t]]
          /\ UNCHANGED <<op, rec, cur>>
  /\ UNCHANGED <<connVars, recVars, todo, closing, delay, lazy, results, outcome>>
  /\ UNCHANGED execVars

\* health_check() has returned: to a direct caller, or to the loop (lines
\* 317-319), which on False creates a reconnect task and goes on.
health_check_return(t) ==
  /\ pc[t] = "h_ret" /\ cur = t
  /\ Notify(NoRec)
  /\ result' = [result EXCEPT ![t] = None]
  /\ IF op[t] = "loop"
     THEN IF result[t] = False
          THEN LET s == CHOOSE x \in FreeSlots : TRUE IN
                 /\ FreeSlots # {}
                 /\ pc' = [pc EXCEPT ![t] = "l_iter", ![s] = "r_begin"]
                 /\ op' = [op EXCEPT ![s] = "reconnect"]
                 /\ rec' = [rec EXCEPT ![t] = NoRec, ![s] = rec[t]]
                 /\ UNCHANGED ret
          ELSE /\ pc' = [pc EXCEPT ![t] = "l_iter"]
               /\ rec' = [rec EXCEPT ![t] = NoRec]
               /\ UNCHANGED <<op, ret>>
     ELSE /\ pc' = [pc EXCEPT ![t] = "done"]
          /\ ret' = [ret EXCEPT ![t] = result[t]]
          /\ UNCHANGED <<op, rec>>
  /\ UNCHANGED <<connVars, recVars, todo, closing, delay, lazy, results, outcome, cur>>
  /\ UNCHANGED execVars

\* The operation has returned to its caller (or the created task has ended).
finish(t) ==
  /\ pc[t] = "done" /\ cur = t
  /\ pc' = [pc EXCEPT ![t] = IF t \in SpawnTasks THEN "free" ELSE "idle"]
  /\ op' = [op EXCEPT ![t] = "none"]
  /\ rec' = [rec EXCEPT ![t] = NoRec]
  /\ ret' = [ret EXCEPT ![t] = None]
  /\ lazy' = [lazy EXCEPT ![t] = FALSE]
  /\ results' = [results EXCEPT ![t] = NoResults]
  /\ cur' = NoTask
  /\ Notify(NoRec)
  /\ UNCHANGED <<connVars, recVars, todo, closing, delay, result, outcome>>
  /\ UNCHANGED execVars

(* ------------------- ConnectionManager operations --------------------- *)

\* A caller may start an operation when it is idle and no task is running.
CanCall(t) == pc[t] = "idle" /\ cur = NoTask

\* Callers ask for a connection to r only below the cap.
MayConnect(r) == retry_count[r] < MaxRetryCount

\* Variant of connect_database: the name is not looked up first, and the
\* subscript raises KeyError for a name that is not registered.
connect_database_unguarded(t, name) ==
  /\ CanCall(t)
  /\ connections[name] # NoRec => MayConnect(connections[name])
  /\ op' = [op EXCEPT ![t] = "connect_database"]
  /\ IF connections[name] = NoRec
     THEN /\ pc' = [pc EXCEPT ![t] = "done"]
          /\ ret' = [ret EXCEPT ![t] = "raised"]
          /\ UNCHANGED rec
     ELSE /\ pc' = [pc EXCEPT ![t] = "c_begin"]
          /\ rec' = [rec EXCEPT ![t] = connections[name]]
          /\ UNCHANGED ret
  /\ cur' = t
  /\ Notify(NoRec)
  /\ UNCHANGED <<connVars, recVars, todo, closing, delay, lazy, results, result, outcome>>
  /\ UNCHANGED execVars

\* connect_database(name), lines 227-232
connect_database(t, name) ==
  /\ CanCall(t)
  /\ connections[name] # NoRec => MayConnect(connections[name])
  /\ op' = [op EXCEPT ![t] = "connect_database"]
  /\ IF connections[name] = NoRec
     THEN /\ pc' = [pc EXCEPT ![t] = "done"]
          /\ ret' = [ret EXCEPT ![t] = False]
          /\ UNCHANGED rec
     ELSE /\ pc' = [pc EXCEPT ![t] = "c_begin"]
          /\ rec' = [rec EXCEPT ![t] = connections[name]]
          /\ UNCHANGED ret
  /\ cur' = t
  /\ Notify(NoRec)
  /\ UNCHANGED <<connVars, recVars, todo, closing, delay, lazy, results, result, outcome>>
  /\ UNCHANGED execVars

\* disconnect_database(name), lines 236-237
disconnect_database(t, name) ==
  /\ CanCall(t)
  /\ op' = [op EXCEPT ![t] = "disconnect_database"]
  /\ IF connections[name] = NoRec
     THEN /\ pc' = [pc EXCEPT ![t] = "done"]
          /\ UNCHANGED rec
     ELSE /\ pc' = [pc EXCEPT ![t] = "d_begin"]
          /\ rec' = [rec EXCEPT ![t] = connections[name]]
  /\ cur' = t
  /\ Notify(NoRec)
  /\ UNCHANGED <<connVars, recVars, todo, closing, delay, lazy, results, result, outcome, ret>>
  /\ UNCHANGED execVars

\* A DatabaseConnection object as DatabaseConnection(config) makes it: not
\* registered, never touched, no task working on it.
Fresh(r) ==
  /\ \A n \in Keys : connections[n] # r
  /\ status[r] = NOT_ATTEMPTED /\ pool[r] = None
  /\ last_error[r] = None /\ retry_count[r] = 0
  /\ last_health_check[r] = None
  /\ callbacks[r] = <<>>
  /\ \A t \in Tasks :
       /\ rec[t] # r /\ r \notin closing[t]
       /\ \A i \in 1..Len(todo[t]) : todo[t][i] # r

\* What self.connections[name] = conn (line 196) does to the iterator the
\* loop holds over self.connections.values() (line 308) while it awaits a
\* health check: a new key changes the size of the dict, and the
\* iterator's next step raises RuntimeError; a known key keeps its place,
\* and the iterator yields the new record there if it has not passed it.
dict_changed(name) ==
  LET iterating == pc[LoopTask] \notin {"off", "l_wait"} IN
  /\ outcome' = [outcome EXCEPT ![LoopTask] =
                   IF iterating /\ connections[name] = NoRec
                     THEN "resized" ELSE @]
  /\ todo' = [todo EXCEPT ![LoopTask] =
                [i \in 1..Len(@) |->
                   IF @[i] = connections[name]
                     THEN connections'[name] ELSE @[i]]]

\* add_database(config), lines 195-199: a new record object under
\* config.name, in place of the one that was there if the name is known
\* (the dict keeps the position of a key it already has); the name becomes
\* the active one if none is.
add_database(name) ==
  /\ cur = NoTask
  /\ \E r \in Recs : Fresh(r)
  /\ LET conn == CHOOSE r \in Recs :
                   Fresh(r) /\ \A r2 \in Recs : Fresh(r2) => r <= r2
     IN connections' = [connections EXCEPT ![name] = conn]
  /\ order' = IF connections[name] # NoRec THEN order ELSE Append(order, name)
  /\ active_connection' =
       IF ~Truthy(active_connection) THEN name ELSE active_connection
  /\ dict_changed(name)
  /\ Notify(NoRec)
  /\ UNCHANGED <<health_check_task, recVars, pc, op, rec, closing, delay, lazy,
                 results, result, ret, cur>>
  /\ UNCHANGED execVars

\* switch_database(name), lines 252-257
switch_database(t, name) ==
  /\ CanCall(t)
  /\ op' = [op EXCEPT ![t] = "switch_database"]
  /\ IF connections[name] = NoRec
     THEN /\ ret' = [ret EXCEPT ![t] = False]
          /\ UNCHANGED active_connection
     ELSE /\ active_connection' = name
          /\ ret' = [ret EXCEPT ![t] = True]
  /\ pc' = [pc EXCEPT ![t] = "done"]
  /\ cur' = t
  /\ Notify(NoRec)
  /\ UNCHANGED <<connections, order, health_check_task, recVars, rec, todo,
                 closing, delay, lazy, results, result, outcome>>
  /\ UNCHANGED execVars

\* connect_all(lazy), lines 203-217: an empty dict of results and the
\* records to connect, one after the other: the active one when lazy, else
\* all in insertion order.
connect_all(t, is_lazy) ==
  /\ CanCall(t)
  /\ lazy' = [lazy EXCEPT ![t] = is_lazy]
  /\ results' = [results EXCEPT ![t] = NoResults]
  /\ LET targets == IF is_lazy
                    THEN IF Truthy(active_connection)
                         THEN <<connections[active_connection]>> ELSE <<>>
                    ELSE Values
     IN /\ \A i \in 1..Len(targets) : MayConnect(targets[i])
        /\ IF targets = <<>>
           THEN /\ connect_all_finish(t)
                /\ UNCHANGED <<rec, todo>>
           ELSE /\ op' = [op EXCEPT ![t] = "connect_all"]
                /\ rec' = [rec EXCEPT ![t] = Head(targets)]
                /\ todo' = [todo EXCEPT ![t] = Tail(targets)]
                /\ pc' = [pc EXCEPT ![t] = "c_begin"]
                /\ UNCHANGED <<health_check_task, ret>>
  /\ cur' = t
  /\ Notify(NoRec)
  /\ UNCHANGED <<connections, order, active_connection, recVars, closing, delay,
                 result, outcome>>
  /\ UNCHANGED execVars

\* Variant of execute_query: a record that is not CONNECTED is not
\* connected first; the call returns None at once.
execute_query_no_connect(t, database) ==
  /\ CanCall(t)
  /\ op' = [op EXCEPT ![t] = "execute_query"]
  /\ Notify(NoRec)
  /\ LET db_name == IF Truthy(database) THEN database ELSE active_connection IN
       IF ~Truthy(db_name) \/ connections[db_name] = NoRec
       THEN /\ pc' = [pc EXCEPT ![t] = "done"]
            /\ ret' = [ret EXCEPT ![t] = None]
            /\ cur' = t
            /\ UNCHANGED rec
       ELSE LET conn == connections[db_name] IN
            /\ rec' = [rec EXCEPT ![t] = conn]
            /\ IF status[conn] # CONNECTED
               THEN /\ MayConnect(conn)
                    /\ pc' = [pc EXCEPT ![t] = "done"]
                    /\ ret' = [ret EXCEPT ![t] = None]
                    /\ cur' = t
               ELSE IF pool[conn] = None
               THEN /\ pc' = [pc EXCEPT ![t] = "done"]
                    /\ ret' = [ret EXCEPT ![t] = "raised"]
                    /\ cur' = t
               ELSE /\ pc' = [pc EXCEPT ![t] = "q_exec"]
                    /\ UNCHANGED <<ret, cur>>
  /\ UNCHANGED <<connVars, recVars, todo, closing, delay, lazy, results, result, outcome>>
  /\ UNCHANGED execVars

\* execute_query(query, params, database), lines 272-285
execute_query(t, database) ==
  /\ CanCall(t)
  /\ op' = [op EXCEPT ![t] = "execute_query"]
  /\ Notify(NoRec)
  /\ LET db_name == IF Truthy(database) THEN database ELSE active_connection IN
       IF ~Truthy(db_name) \/ connections[db_name] = NoRec
       THEN /\ pc' = [pc EXCEPT ![t] = "done"]
            /\ ret' = [ret EXCEPT ![t] = None]
            /\ cur' = t
            /\ UNCHANGED rec
       ELSE LET conn == connections[db_name] IN
            /\ rec' = [rec EXCEPT ![t] = conn]
            /\ IF status[conn] # CONNECTED
               THEN /\ MayConnect(conn)
                    /\ pc' = [pc EXCEPT ![t] = "c_begin"]
                    /\ cur' = t
                    /\ UNCHANGED ret
               ELSE IF pool[conn] = None
               THEN /\ pc' = [pc EXCEPT ![t] = "done"]
                    /\ ret' = [ret EXCEPT ![t] = "raised"]
                    /\ cur' = t
               ELSE /\ pc' = [pc EXCEPT ![t] = "q_exec"]
                    /\ UNCHANGED <<ret, cur>>
  /\ UNCHANGED <<connVars, recVars, todo, closing, delay, lazy, results, result, outcome>>
  /\ UNCHANGED execVars

\* execute_query, lines 285-302: the statement returned rows or raised.
execute_query_done(t) ==
  /\ pc[t] = "q_exec" /\ cur = NoTask
  /\ \E ok \in BOOLEAN :
       ret' = [ret EXCEPT ![t] = IF ok THEN "rows" ELSE "raised"]
  /\ pc' = [pc EXCEPT ![t] = "done"]
  /\ cur' = t
  /\ Notify(NoRec)
  /\ UNCHANGED <<connVars, recVars, op, rec, todo, closing, delay, lazy, results, result, outcome>>
  /\ UNCHANGED execVars

\* A caller holding the active record (get_active_connection) calls its
\* reconnect() or health_check() directly.
reconnect(t) ==
  /\ CanCall(t)
  /\ get_active_connection # NoRec
  /\ op' = [op EXCEPT ![t] = "reconnect"]
  /\ rec' = [rec EXCEPT ![t] = get_active_connection]
  /\ pc' = [pc EXCEPT ![t] = "r_begin"]
  /\ cur' = t
  /\ Notify(NoRec)
  /\ UNCHANGED <<connVars, recVars, todo, closing, delay, lazy, results, result, outcome, ret>>
  /\ UNCHANGED execVars

health_check(t) ==
  /\ CanCall(t)
  /\ get_active_connection # NoRec
  /\ op' = [op EXCEPT ![t] = "health_check"]
  /\ rec' = [rec EXCEPT ![t] = get_active_connection]
  /\ pc' = [pc EXCEPT ![t] = "h_begin"]
  /\ cur' = t
  /\ Notify(NoRec)
  /\ UNCHANGED <<connVars, recVars, todo, closing, delay, lazy, results, result, outcome, ret>>
  /\ UNCHANGED execVars

\* Variant of disconnect_all: the reconnect tasks the loop created are
\* cancelled with it.
disconnect_all_cancels_reconnects(t) ==
  /\ CanCall(t)
  /\ op' = [x \in Tasks |->
             IF x = t THEN "disconnect_all"
             ELSE IF x \in SpawnTasks \/ (x = LoopTask /\ health_check_task)
               THEN "none" ELSE op[x]]
  /\ health_check_task' = FALSE
  /\ pc' = [x \in Tasks |->
             IF x = t THEN "g_wait"
             ELSE IF x \in SpawnTasks THEN "free"
             ELSE IF x = LoopTask /\ health_check_task THEN "off" ELSE pc[x]]
  /\ rec' = [x \in Tasks |->
              IF x \in SpawnTasks \/ (x = LoopTask /\ health_check_task)
                THEN NoRec ELSE rec[x]]
  /\ todo' = [todo EXCEPT ![t] = Values,
                          ![LoopTask] = IF health_check_task THEN <<>> ELSE @]
  /\ outcome' = [outcome EXCEPT ![LoopTask] =
                   IF health_check_task THEN "none" ELSE @]
  /\ Notify(NoRec)
  /\ UNCHANGED <<connections, order, active_connection, recVars, closing, delay, lazy, results,
                 result, ret, cur>>
  /\ UNCHANGED execVars

\* disconnect_all(), lines 242-248: cancel the loop (it is suspended at an
\* await, and ends there), make one disconnect() per record and await
\* gather.
disconnect_all(t) ==
  /\ CanCall(t)
  /\ op' = [op EXCEPT ![t] = "disconnect_all",
                      ![LoopTask] = IF health_check_task THEN "none" ELSE @]
  /\ health_check_task' = FALSE
  /\ pc' = [pc EXCEPT ![t] = "g_wait",
                      ![LoopTask] = IF health_check_task THEN "off" ELSE @]
  /\ rec' = [rec EXCEPT ![LoopTask] = IF health_check_task THEN NoRec ELSE @]
  /\ todo' = [todo EXCEPT ![t] = Values,
                          ![LoopTask] = IF health_check_task THEN <<>> ELSE @]
  /\ outcome' = [outcome EXCEPT ![LoopTask] =
                   IF health_check_task THEN "none" ELSE @]
  /\ Notify(NoRec)
  /\ UNCHANGED <<connections, order, active_connection, recVars, closing, delay, lazy, results,
                 result, ret, cur>>
  /\ UNCHANGED execVars

\* gather's tasks run one after the other up to their first await:
\* disconnect(), lines 117-122, for the next record.
disconnect_all_begin(t) ==
  /\ pc[t] = "g_wait" /\ todo[t] # <<>>
  /\ cur \in {NoTask, t}
  /\ LET r == Head(todo[t]) IN
       /\ todo' = [todo EXCEPT ![t] = Tail(@)]
       /\ cur' = IF Len(todo[t]) > 1 THEN t ELSE NoTask
       /\ IF pool[r] # None
          THEN /\ closing' = [closing EXCEPT ![t] = @ \cup {r}]
               /\ Notify(NoRec)
               /\ UNCHANGED status
          ELSE /\ status' = [status EXCEPT ![r] = DISCONNECTED]
               /\ Notify(r)
               /\ UNCHANGED closing
  /\ UNCHANGED <<connVars, pool, last_error, retry_count, last_health_check,
                 pc, op, rec, lazy, results, result, outcome, ret>>
  /\ UNCHANGED delay
  /\ UNCHANGED execVars

\* One of gather's disconnect() tasks: close() returned (lines 119-122), or
\* raised, which gather collects (return_exceptions=True).
disconnect_all_close_done(t, r) ==
  /\ pc[t] = "g_wait" /\ cur = NoTask /\ todo[t] = <<>>
  /\ r \in closing[t]
  /\ closing' = [closing EXCEPT ![t] = @ \ {r}]
  /\ \E ok \in BOOLEAN :
       IF ok
       THEN /\ pool' = [pool EXCEPT ![r] = None]
            /\ status' = [status EXCEPT ![r] = DISCONNECTED]
            /\ Notify(r)
       ELSE /\ Notify(NoRec)
            /\ UNCHANGED <<pool, status>>
  /\ UNCHANGED <<connVars, last_error, retry_count, last_health_check,
                 pc, op, rec, todo, lazy, results, result, outcome, ret, cur>>
  /\ UNCHANGED delay
  /\ UNCHANGED execVars

\* disconnect_all(), line 248: gather is complete.
disconnect_all_done(t) ==
  /\ pc[t] = "g_wait" /\ cur = NoTask /\ todo[t] = <<>> /\ closing[t] = {}
  /\ pc' = [pc EXCEPT ![t] = "done"]
  /\ cur' = t
  /\ Notify(NoRec)
  /\ UNCHANGED <<connVars, recVars, op, rec, todo, closing, delay, lazy, results, result, outcome, ret>>
  /\ UNCHANGED execVars

(* ------------------------ _health_check_loop -------------------------- *)

\* _health_check_loop, lines 306-308: a pass starts (the task's first run,
\* or the end of sleep(5)).  A pass starts only once the reconnect tasks of
\* the pass before have ended, so that every reconnect task it may create
\* has a free slot.
health_check_loop_pass(t) ==
  /\ pc[t] = "l_wait" /\ cur = NoTask
  /\ FreeSlots = SpawnTasks /\ Cardinality(FreeSlots) >= Len(order)
  /\ todo' = [todo EXCEPT ![t] = Values]
  /\ pc' = [pc EXCEPT ![t] = "l_iter"]
  /\ cur' = t
  /\ Notify(NoRec)
  /\ UNCHANGED <<connVars, recVars, op, rec, closing, delay, lazy, results, result, outcome, ret>>
  /\ UNCHANGED execVars

\* Variant of health_check_loop_next: the RuntimeError ends the loop.
health_check_loop_next_dies(t) ==
  /\ pc[t] = "l_iter" /\ cur = t
  /\ Notify(NoRec)
  /\ IF outcome[t] = "resized"
     THEN /\ todo' = [todo EXCEPT ![t] = <<>>]
          /\ outcome' = [outcome EXCEPT ![t] = "none"]
          /\ pc' = [pc EXCEPT ![t] = "off"]
          /\ cur' = NoTask
          /\ UNCHANGED rec
     ELSE IF todo[t] = <<>>
     THEN /\ pc' = [pc EXCEPT ![t] = "l_wait"]
          /\ cur' = NoTask
          /\ outcome' = [outcome EXCEPT ![t] = "none"]
          /\ UNCHANGED <<rec, todo>>
     ELSE LET conn == Head(todo[t]) IN
          /\ todo' = [todo EXCEPT ![t] = Tail(@)]
          /\ UNCHANGED <<cur, outcome>>
          /\ \E due \in BOOLEAN :
               /\ (status[conn] = CONNECTED /\ last_health_check[conn] = None) => due
               /\ status[conn] # CONNECTED => ~due
               /\ IF status[conn] = CONNECTED /\ due
                  THEN /\ rec' = [rec EXCEPT ![t] = conn]
                       /\ pc' = [pc EXCEPT ![t] = "h_begin"]
                  ELSE UNCHANGED <<rec, pc>>
  /\ UNCHANGED <<connVars, recVars, op, closing, delay, lazy, results, result, ret>>
  /\ UNCHANGED execVars

\* _health_check_loop, lines 306-326: the iterator's next step.  It raises
\* RuntimeError if the dict has changed size since the pass began, which
\* the loop logs (lines 325-326) before it begins a new pass at once;
\* otherwise it yields the next record, and a CONNECTED record is checked
\* unless its last check is recent (the clock decides); after the last
\* record the loop sleeps.
health_check_loop_next(t) ==
  /\ pc[t] = "l_iter" /\ cur = t
  /\ Notify(NoRec)
  /\ IF outcome[t] = "resized"
     THEN /\ todo' = [todo EXCEPT ![t] = Values]
          /\ outcome' = [outcome EXCEPT ![t] = "logged"]
          /\ UNCHANGED <<rec, pc, cur>>
     ELSE IF todo[t] = <<>>
     THEN /\ pc' = [pc EXCEPT ![t] = "l_wait"]
          /\ cur' = NoTask
          /\ outcome' = [outcome EXCEPT ![t] = "none"]
          /\ UNCHANGED <<rec, todo>>
     ELSE LET conn == Head(todo[t]) IN
          /\ todo' = [todo EXCEPT ![t] = Tail(@)]
          /\ UNCHANGED <<cur, outcome>>
          /\ \E due \in BOOLEAN :
               /\ (status[conn] = CONNECTED /\ last_health_check[conn] = None) => due
               /\ status[conn] # CONNECTED => ~due
               /\ IF status[conn] = CONNECTED /\ due
                  THEN /\ rec' = [rec EXCEPT ![t] = conn]
                       /\ pc' = [pc EXCEPT ![t] = "h_begin"]
                  ELSE UNCHANGED <<rec, pc>>
  /\ UNCHANGED <<connVars, recVars, op, closing, delay, lazy, results, result, ret>>
  /\ UNCHANGED execVars

(* ------------------------------ Next ---------------------------------- *)

(* --------------------------- query text ------------------------------- *)

\* A query is a sequence of words; " " stands for leading or trailing
\* white space.  Queries are single-line, so re.MULTILINE adds nothing.
Space == " "

\* The texts callers pass to execute().
Queries ==
  { <<"SELECT", "t">>,
    <<"select", "x", "FROM", "t">>,
    <<"SHOW", "t">>,
    <<"DELETE", "FROM", "t">>,
    <<"DROP", "DATABASE", "t">>,
    <<"INSERT", "t">>,
    <<Space, "insert", "t">>,
    <<"UPDATE", "t", "SET", "x">> }

\* str.upper(), word by word
upper(q) ==
  [i \in 1..Len(q) |->
     CASE q[i] = "insert" -> "INSERT"
       [] q[i] = "select" -> "SELECT"
       [] q[i] = "delete" -> "DELETE"
       [] OTHER -> q[i]]

RECURSIVE lstrip(_)
lstrip(q) == IF q # <<>> /\ Head(q) = Space THEN lstrip(Tail(q)) ELSE q

RECURSIVE rstrip(_)
rstrip(q) ==
  IF q # <<>> /\ q[Len(q)] = Space THEN rstrip(SubSeq(q, 1, Len(q) - 1)) ELSE q

\* str.strip()
strip(q) == rstrip(lstrip(q))

\* The words of a pattern occur in q from position i on (re.IGNORECASE).
MatchesAt(words, q, i) ==
  /\ i + Len(words) - 1 <= Len(q)
  /\ \A k \in 1..Len(words) : upper(q)[i + k - 1] = words[k]

\* re.match(pattern, q, re.IGNORECASE) for a pattern "^W1\s+W2..."
re_match(words, q) == MatchesAt(words, q, 1)

\* compiled_pattern.search(q): a pattern that starts with ^ matches at the
\* start only, any other pattern anywhere.
re_search(pattern, q) ==
  IF pattern.anchored
    THEN MatchesAt(pattern.words, q, 1)
    ELSE \E i \in 1..Len(q) : MatchesAt(pattern.words, q, i)

\* str.startswith(kw) on the first word
startswith(q, kw) == q # <<>> /\ Head(q) = kw

(* --------------------------- SecurityGuard ---------------------------- *)

\* QuerySeverity
SAFE == "safe"
LOW == "low"
MEDIUM == "medium"
HIGH == "high"
CRITICAL == "critical"

\* SafetyRule(pattern, severity, message, allow_with_confirmation)
SafetyRule(anchored, words, severity, message, allow) ==
  [pattern |-> [anchored |-> anchored, words |-> words],
   severity |-> severity, message |-> message,
   allow_with_confirmation |-> allow]

NoRule == SafetyRule(FALSE, <<>>, SAFE, "no rule", FALSE)

\* SafetyRule.matches
matches(rule, q) == re_search(rule.pattern, q)

\* A blacklist file as load_blacklist reads it: a CRITICAL rule that also
\* asks for confirmation, a MEDIUM rule with confirmation, a LOW rule
\* without, and a HIGH rule behind the MEDIUM one.
Blacklist ==
  << SafetyRule(TRUE, <<"DROP", "DATABASE">>, CRITICAL, "drop database", TRUE),
     SafetyRule(TRUE, <<"DELETE">>, MEDIUM, "delete", TRUE),
     SafetyRule(FALSE, <<"SET">>, LOW, "update", FALSE),
     SafetyRule(FALSE, <<"FROM">>, HIGH, "from", FALSE) >>

\* A whitelist file as load_whitelist reads it: every rule is SAFE and
\* allow_with_confirmation.
Whitelist ==
  << SafetyRule(TRUE, <<"SELECT">>, SAFE, "select", TRUE),
     SafetyRule(TRUE, <<"INSERT">>, SAFE, "insert", TRUE) >>

\* The first rule of a list that matches q, or 0.
FirstMatching(rules, q) ==
  IF \E i \in 1..Len(rules) : matches(rules[i], q)
    THEN CHOOSE i \in 1..Len(rules) :
           /\ matches(rules[i], q)
           /\ \A j \in 1..(i - 1) : ~matches(rules[j], q)
    ELSE 0

\* check_query, lines 129-134: the read-only patterns
read_only_allowed(q) ==
  \/ \E w \in {"SELECT", "SHOW", "EXPLAIN", "\\", "BEGIN", "COMMIT", "ROLLBACK"} :
       re_match(<<w>>, q)
  \/ /\ re_match(<<"WITH">>, q)
     /\ \E i \in 2..Len(q) : upper(q)[i] = "SELECT"

\* (is_safe, matched_rule, message); a message is a sequence of pieces of
\* text, so that a prefix or a suggestion can be joined to it.
Verdict(is_safe, rule, message) ==
  [is_safe |-> is_safe, rule |-> rule, message |-> message]

\* Variant of check_query: read-only mode is looked at after the blacklist.
check_query_rules_first(q0) ==
  LET q == strip(q0)
      b == FirstMatching(blacklist_rules, q)
      w == FirstMatching(whitelist_rules, q)
  IN IF blacklist_enabled /\ b # 0
       THEN IF blacklist_rules[b].severity \in {CRITICAL, HIGH}
              THEN Verdict(FALSE, blacklist_rules[b],
                           <<blacklist_rules[b].message>>)
            ELSE IF blacklist_rules[b].allow_with_confirmation
              THEN Verdict(TRUE, blacklist_rules[b],
                           <<"warning sign", blacklist_rules[b].message>>)
            ELSE Verdict(FALSE, blacklist_rules[b],
                         <<blacklist_rules[b].message>>)
     ELSE IF read_only_mode /\ ~read_only_allowed(q)
       THEN Verdict(FALSE, NoRule,
                    <<"Read-only mode: Only SELECT queries are allowed">>)
     ELSE IF whitelist_enabled /\ whitelist_rules # <<>>
       THEN IF w # 0
              THEN Verdict(TRUE, whitelist_rules[w], <<"Query allowed by whitelist">>)
              ELSE Verdict(FALSE, NoRule, <<"Query not in whitelist">>)
     ELSE Verdict(TRUE, NoRule, <<"Query allowed">>)

\* Variant of check_query: the last matching blacklist rule decides.
check_query_last_match(q0) ==
  LET q == strip(q0)
      b == IF FirstMatching(blacklist_rules, q) = 0 THEN 0
           ELSE CHOOSE i \in 1..Len(blacklist_rules) :
                  /\ matches(blacklist_rules[i], q)
                  /\ \A j \in (i + 1)..Len(blacklist_rules) :
                       ~matches(blacklist_rules[j], q)
      w == FirstMatching(whitelist_rules, q)
  IN IF read_only_mode /\ ~read_only_allowed(q)
       THEN Verdict(FALSE, NoRule,
                    <<"Read-only mode: Only SELECT queries are allowed">>)
     ELSE IF blacklist_enabled /\ b # 0
       THEN IF blacklist_rules[b].severity \in {CRITICAL, HIGH}
              THEN Verdict(FALSE, blacklist_rules[b],
                           <<blacklist_rules[b].message>>)
            ELSE IF blacklist_rules[b].allow_with_confirmation
              THEN Verdict(TRUE, blacklist_rules[b],
                           <<"warning sign", blacklist_rules[b].message>>)
            ELSE Verdict(FALSE, blacklist_rules[b],
                         <<blacklist_rules[b].message>>)
     ELSE IF whitelist_enabled /\ whitelist_rules # <<>>
       THEN IF w # 0
              THEN Verdict(TRUE, whitelist_rules[w], <<"Query allowed by whitelist">>)
              ELSE Verdict(FALSE, NoRule, <<"Query not in whitelist">>)
     ELSE Verdict(TRUE, NoRule, <<"Query allowed">>)

\* Variant of check_query: a query that no whitelist rule matches is let
\* through.
check_query_open_whitelist(q0) ==
  LET q == strip(q0)
      b == FirstMatching(blacklist_rules, q)
      w == FirstMatching(whitelist_rules, q)
  IN IF read_only_mode /\ ~read_only_allowed(q)
       THEN Verdict(FALSE, NoRule,
                    <<"Read-only mode: Only SELECT queries are allowed">>)
     ELSE IF blacklist_enabled /\ b # 0
       THEN IF blacklist_rules[b].severity \in {CRITICAL, HIGH}
              THEN Verdict(FALSE, blacklist_rules[b],
                           <<blacklist_rules[b].message>>)
            ELSE IF blacklist_rules[b].allow_with_confirmation
              THEN Verdict(TRUE, blacklist_rules[b],
                           <<"warning sign", blacklist_rules[b].message>>)
            ELSE Verdict(FALSE, blacklist_rules[b],
                         <<blacklist_rules[b].message>>)
     ELSE IF whitelist_enabled /\ whitelist_rules # <<>>
       THEN IF w # 0
              THEN Verdict(TRUE, whitelist_rules[w], <<"Query allowed by whitelist">>)
              ELSE Verdict(TRUE, NoRule, <<"Query allowed">>)
     ELSE Verdict(TRUE, NoRule, <<"Query allowed">>)

\* Variant of check_query: allow_with_confirmation is looked at before the
\* severity.
check_query_confirmation_first(q0) ==
  LET q == strip(q0)
      b == FirstMatching(blacklist_rules, q)
      w == FirstMatching(whitelist_rules, q)
  IN IF read_only_mode /\ ~read_only_allowed(q)
       THEN Verdict(FALSE, NoRule,
                    <<"Read-only mode: Only SELECT queries are allowed">>)
     ELSE IF blacklist_enabled /\ b # 0
       THEN IF /\ blacklist_rules[b].severity \in {CRITICAL, HIGH}
               /\ ~blacklist_rules[b].allow_with_confirmation
              THEN Verdict(FALSE, blacklist_rules[b],
                           <<blacklist_rules[b].message>>)
            ELSE IF blacklist_rules[b].allow_with_confirmation
              THEN Verdict(TRUE, blacklist_rules[b],
                           <<"warning sign", blacklist_rules[b].message>>)
            ELSE Verdict(FALSE, blacklist_rules[b],
                         <<blacklist_rules[b].message>>)
     ELSE IF whitelist_enabled /\ whitelist_rules # <<>>
       THEN IF w # 0
              THEN Verdict(TRUE, whitelist_rules[w], <<"Query allowed by whitelist">>)
              ELSE Verdict(FALSE, NoRule, <<"Query not in whitelist">>)
     ELSE Verdict(TRUE, NoRule, <<"Query allowed">>)

\* check_query(query) -> (is_safe, matched_rule, message)
check_query(q0) ==
  LET q == strip(q0)
      b == FirstMatching(blacklist_rules, q)
      w == FirstMatching(whitelist_rules, q)
  IN IF read_only_mode /\ ~read_only_allowed(q)
       THEN Verdict(FALSE, NoRule,
                    <<"Read-only mode: Only SELECT queries are allowed">>)
     ELSE IF blacklist_enabled /\ b # 0
       THEN IF blacklist_rules[b].severity \in {CRITICAL, HIGH}
              THEN Verdict(FALSE, blacklist_rules[b],
                           <<blacklist_rules[b].message>>)
            ELSE IF blacklist_rules[b].allow_with_confirmation
              THEN Verdict(TRUE, blacklist_rules[b],
                           <<"warning sign", blacklist_rules[b].message>>)
            ELSE Verdict(FALSE, blacklist_rules[b],
                         <<blacklist_rules[b].message>>)
     ELSE IF whitelist_enabled /\ whitelist_rules # <<>>
       THEN IF w # 0
              THEN Verdict(TRUE, whitelist_rules[w], <<"Query allowed by whitelist">>)
              ELSE Verdict(FALSE, NoRule, <<"Query not in whitelist">>)
     ELSE Verdict(TRUE, NoRule, <<"Query allowed">>)

\* suggest_safer_query(query): the suggestions, <<>> for None.  It is given
\* the text as passed, not stripped.
suggest_safer_query(q) ==
  (IF Len(rstrip(q)) = 3 /\ re_match(<<"DELETE", "FROM">>, q)
     THEN <<"DELETE FROM t WHERE <condition>">> ELSE <<>>)
  \o
  (IF /\ Len(rstrip(q)) >= 4 /\ re_match(<<"UPDATE">>, q)
      /\ upper(q)[3] = "SET"
      /\ \A i \in 1..Len(q) : upper(q)[i] # "WHERE"
     THEN <<"UPDATE t SET x WHERE <condition>">> ELSE <<>>)
  \o
  (IF /\ Len(q) >= 3
      /\ \E k \in {"TABLE", "DATABASE", "SCHEMA"} : re_match(<<"DROP", k>>, q)
     THEN <<"Consider using CASCADE or RESTRICT",
            "Make sure to backup before dropping">> ELSE <<>>)

(* --------------------------- QueryExecutor ---------------------------- *)

modifying_keywords ==
  {"INSERT", "UPDATE", "DELETE", "CREATE", "DROP", "ALTER", "TRUNCATE",
   "GRANT", "REVOKE"}

\* _is_modifying_query
_is_modifying_query(q) ==
  \E kw \in modifying_keywords : startswith(strip(upper(q)), kw)

\* QueryResult(success, error), execution_time at its default 0.0 (the dry
\* run passes 0 itself); raised marks an exception that left the call
\* instead of a result.
QueryResult(success, error) ==
  [raised |-> FALSE, success |-> success, error |-> error,
   execution_time |-> "0"]

Raised ==
  [raised |-> TRUE, success |-> FALSE, error |-> <<"exception">>,
   execution_time |-> "0"]

\* A result whose execution_time is the time elapsed since start_time
\* (lines 288-294 and 312-317) in place of the default.
Timed(r) == [r EXCEPT !.execution_time = "elapsed"]

\* A call made on the pooled handle and whether it returned or raised.
DbCall(call, ok) == [call |-> call, ok |-> ok]

\* The length beyond which execute() drops the oldest recorded result.
HistoryCap == 1000

\* The number of results recorded so far.  A recorded result is identified
\* by its place in the order of recording: 1, 2, 3, ...
Recorded ==
  IF query_history = <<>> THEN 0 ELSE query_history[Len(query_history)]

\* Variant of history_append: a full history drops its newest entry.
history_append_drop_newest(h) ==
  LET h2 == Append(h, (IF h = <<>> THEN 0 ELSE h[Len(h)]) + 1)
  IN IF Len(h2) > HistoryCap THEN SubSeq(h2, 1, HistoryCap) ELSE h2

\* execute(), lines 298-301: self.query_history.append(result), then pop(0)
\* when the list has grown beyond the cap.
history_append(h) ==
  LET h2 == Append(h, (IF h = <<>> THEN 0 ELSE h[Len(h)]) + 1)
  IN IF Len(h2) > HistoryCap THEN Tail(h2) ELSE h2

\* QueryExecutor(connection_manager): no transaction, no history, the call
\* slot empty.
InitCall ==
  /\ transaction_active = FALSE
  /\ xpc = "idle"
  /\ xop = "none"
  /\ query = <<>>
  /\ skip_safety = FALSE
  /\ confirm_callback = None
  /\ confirm = "not asked"
  /\ needs_transaction = FALSE
  /\ db_calls = <<>>
  /\ xresult = QueryResult(FALSE, <<>>)
  /\ query_history = <<>>

\* SecurityGuard() and QueryExecutor() as constructed: no rules, both lists
\* enabled, read-only off, dry run off, auto-transaction on.
InitExecutor ==
  /\ read_only_mode = FALSE
  /\ blacklist_enabled = TRUE
  /\ whitelist_enabled = TRUE
  /\ blacklist_rules = <<>>
  /\ whitelist_rules = <<>>
  /\ dry_run_mode = FALSE
  /\ auto_transaction = TRUE
  /\ InitCall

\* The guard after load_blacklist and load_whitelist (each file may disable
\* its list; the whitelist file may be absent) and the executor with its
\* settings as the application chose them.
InitConfigured ==
  /\ read_only_mode \in BOOLEAN
  /\ blacklist_enabled \in BOOLEAN
  /\ whitelist_enabled \in BOOLEAN
  /\ blacklist_rules = Blacklist
  /\ whitelist_rules \in {<<>>, Whitelist}
  /\ dry_run_mode \in BOOLEAN
  /\ auto_transaction \in BOOLEAN
  /\ InitCall

\* The call returns r.
execute_returns(r) ==
  /\ xresult' = r
  /\ xpc' = "x_ret"

\* Variant of execute_run: dry_run_mode is not looked at.
execute_run_wet(q) ==
  IF get_active_connection = NoRec \/ pool[get_active_connection] = None
    THEN /\ execute_returns(QueryResult(FALSE, <<"No active database connection">>))
         /\ needs_transaction' = FALSE
  ELSE /\ needs_transaction' =
            (auto_transaction /\ ~transaction_active /\ _is_modifying_query(q))
       /\ xpc' = "x_acquire"
       /\ UNCHANGED xresult

\* Variant of execute_run: the transaction flag is not looked at.
execute_run_nested(q) ==
  IF dry_run_mode
    THEN /\ execute_returns(QueryResult(TRUE, <<"DRY RUN: Query not executed">>))
         /\ needs_transaction' = FALSE
  ELSE IF get_active_connection = NoRec \/ pool[get_active_connection] = None
    THEN /\ execute_returns(QueryResult(FALSE, <<"No active database connection">>))
         /\ needs_transaction' = FALSE
  ELSE /\ needs_transaction' =
            (auto_transaction /\ _is_modifying_query(q))
       /\ xpc' = "x_acquire"
       /\ UNCHANGED xresult

\* execute(), lines 240-266: dry run, the active record and its pool, the
\* transaction decision, then await conn.pool.connection().
execute_run(q) ==
  IF dry_run_mode
    THEN /\ execute_returns(QueryResult(TRUE, <<"DRY RUN: Query not executed">>))
         /\ needs_transaction' = FALSE
  ELSE IF get_active_connection = NoRec \/ pool[get_active_connection] = None
    THEN /\ execute_returns(QueryResult(FALSE, <<"No active database connection">>))
         /\ needs_transaction' = FALSE
  ELSE /\ needs_transaction' =
            (auto_transaction /\ ~transaction_active /\ _is_modifying_query(q))
       /\ xpc' = "x_acquire"
       /\ UNCHANGED xresult

\* Variant of execute_begin: the verdict of the guard is not looked at.
execute_begin_unchecked(q, skip, cb) ==
  /\ query' = q /\ skip_safety' = skip /\ confirm_callback' = cb
  /\ db_calls' = <<>>
  /\ confirm' = "not asked"
  /\ LET v == check_query(q)
         suggestion == suggest_safer_query(q)
     IN IF FALSE
          THEN /\ execute_returns(QueryResult(FALSE,
                    v.message \o (IF suggestion # <<>>
                                    THEN <<"Suggestion:">> \o suggestion
                                    ELSE <<>>)))
               /\ needs_transaction' = FALSE
        ELSE IF /\ ~skip /\ v.rule # NoRule
                /\ v.rule.allow_with_confirmation /\ cb # None
          THEN /\ xpc' = "x_confirm"
               /\ UNCHANGED <<xresult, needs_transaction>>
        ELSE execute_run(q)

\* execute(), lines 212-238: the safety check, and the await of the
\* confirmation callback when the matched rule asks for one.
execute_begin(q, skip, cb) ==
  /\ query' = q /\ skip_safety' = skip /\ confirm_callback' = cb
  /\ db_calls' = <<>>
  /\ confirm' = "not asked"
  /\ LET v == check_query(q)
         suggestion == suggest_safer_query(q)
     IN IF ~skip /\ ~v.is_safe
          THEN /\ execute_returns(QueryResult(FALSE,
                    v.message \o (IF suggestion # <<>>
                                    THEN <<"Suggestion:">> \o suggestion
                                    ELSE <<>>)))
               /\ needs_transaction' = FALSE
        ELSE IF /\ ~skip /\ v.rule # NoRule
                /\ v.rule.allow_with_confirmation /\ cb # None
          THEN /\ xpc' = "x_confirm"
               /\ UNCHANGED <<xresult, needs_transaction>>
        ELSE execute_run(q)

\* execute(query, skip_safety, confirm_callback) called by the application
execute(q, skip, cb) ==
  /\ xpc = "idle"
  /\ xop' = "execute"
  /\ execute_begin(q, skip, cb)
  /\ UNCHANGED <<managerVars, guardVars, query_history, executorVars>>

\* Variant of execute_confirm_done: the answer of the callback is ignored.
execute_confirm_done_deaf(answer) ==
  /\ xpc = "x_confirm"
  /\ confirm' = answer
  /\ CASE answer = "yes" -> execute_run(query)
       [] answer = "no" -> execute_run(query)
       [] answer = "raised" ->
            /\ execute_returns(Raised)
            /\ UNCHANGED needs_transaction
  /\ UNCHANGED <<managerVars, guardVars, query_history, executorVars, xop, query, skip_safety,
                 confirm_callback, db_calls>>

\* execute(), lines 233-238: the callback answered, or raised out of execute
execute_confirm_done(answer) ==
  /\ xpc = "x_confirm"
  /\ confirm' = answer
  /\ CASE answer = "yes" -> execute_run(query)
       [] answer = "no" ->
            /\ execute_returns(QueryResult(FALSE, <<"Query cancelled by user">>))
            /\ UNCHANGED needs_transaction
       [] answer = "raised" ->
            /\ execute_returns(Raised)
            /\ UNCHANGED needs_transaction
  /\ UNCHANGED <<managerVars, guardVars, query_history, executorVars, xop, query, skip_safety,
                 confirm_callback, db_calls>>

\* execute(), lines 266-268: the pool handed out a connection or raised;
\* with needs_transaction, BEGIN is sent first.
execute_acquire_done(ok) ==
  /\ xpc = "x_acquire"
  /\ db_calls' = Append(db_calls, DbCall("connection", ok))
  /\ IF ~ok THEN execute_returns(Timed(QueryResult(FALSE, <<"exception">>)))
     ELSE /\ xpc' = IF needs_transaction THEN "x_begin" ELSE "x_stmt"
          /\ UNCHANGED xresult
  /\ UNCHANGED <<managerVars, guardVars, query_history, executorVars, xop, query, skip_safety,
                 confirm_callback, confirm, needs_transaction>>

\* execute(), line 268: BEGIN returned, or raised before the inner try
execute_begin_done(ok) ==
  /\ xpc = "x_begin"
  /\ db_calls' = Append(db_calls, DbCall("BEGIN", ok))
  /\ IF ~ok THEN execute_returns(Timed(QueryResult(FALSE, <<"exception">>)))
     ELSE /\ xpc' = "x_stmt"
          /\ UNCHANGED xresult
  /\ UNCHANGED <<managerVars, guardVars, query_history, executorVars, xop, query, skip_safety,
                 confirm_callback, confirm, needs_transaction>>

\* execute(), lines 271-308: the statement (and the fetch of its rows)
\* returned or raised.
execute_statement_done(ok) ==
  /\ xpc = "x_stmt"
  /\ db_calls' = Append(db_calls, DbCall("statement", ok))
  /\ IF needs_transaction
       THEN /\ xpc' = IF ok THEN "x_commit" ELSE "x_rollback"
            /\ UNCHANGED <<xresult, query_history>>
       ELSE /\ execute_returns(IF ok THEN Timed(QueryResult(TRUE, <<>>))
                                     ELSE Timed(QueryResult(FALSE, <<"exception">>)))
            /\ query_history' = IF ok THEN history_append(query_history)
                                      ELSE query_history
  /\ UNCHANGED <<managerVars, guardVars, executorVars, xop, query, skip_safety,
                 confirm_callback, confirm, needs_transaction>>

\* execute(), lines 285-308: COMMIT returned, or raised into the inner except
execute_commit_done(ok) ==
  /\ xpc = "x_commit"
  /\ db_calls' = Append(db_calls, DbCall("COMMIT", ok))
  /\ IF ok THEN /\ execute_returns(Timed(QueryResult(TRUE, <<>>)))
                /\ query_history' = history_append(query_history)
     ELSE /\ xpc' = "x_rollback"
          /\ UNCHANGED <<xresult, query_history>>
  /\ UNCHANGED <<managerVars, guardVars, executorVars, xop, query, skip_safety,
                 confirm_callback, confirm, needs_transaction>>

\* execute(), lines 305-317: ROLLBACK returned or raised; either way an
\* exception reaches the outer except.
execute_rollback_done(ok) ==
  /\ xpc = "x_rollback"
  /\ db_calls' = Append(db_calls, DbCall("ROLLBACK", ok))
  /\ execute_returns(Timed(QueryResult(FALSE, <<"exception">>)))
  /\ UNCHANGED <<managerVars, guardVars, query_history, executorVars, xop, query, skip_safety,
                 confirm_callback, confirm, needs_transaction>>

\* Variant of transaction_call: the flag is not tested before execute().
transaction_call_unchecked(m) ==
  /\ xpc = "idle"
  /\ xop' = m
  /\ LET sql == CASE m = "begin_transaction" -> <<"BEGIN">>
                  [] m = "commit_transaction" -> <<"COMMIT">>
                  [] m = "rollback_transaction" -> <<"ROLLBACK">>
     IN execute_begin(sql, TRUE, None)
  /\ UNCHANGED <<managerVars, guardVars, query_history, executorVars>>

\* begin_transaction, commit_transaction, rollback_transaction up to their
\* await of execute(sql, skip_safety=True).
transaction_call(m) ==
  /\ xpc = "idle"
  /\ xop' = m
  /\ LET sql == CASE m = "begin_transaction" -> <<"BEGIN">>
                  [] m = "commit_transaction" -> <<"COMMIT">>
                  [] m = "rollback_transaction" -> <<"ROLLBACK">>
     IN IF transaction_active = (m = "begin_transaction")
          THEN /\ execute_returns(QueryResult(FALSE,
                    IF m = "begin_transaction"
                      THEN <<"Transaction already active">>
                      ELSE <<"No active transaction">>))
               /\ UNCHANGED <<query, skip_safety, confirm_callback, confirm,
                              needs_transaction, db_calls>>
          ELSE execute_begin(sql, TRUE, None)
  /\ UNCHANGED <<managerVars, guardVars, query_history, executorVars>>

\* The call returns to the application and its frame is gone; a transaction
\* method sets the flag after a successful execute.
execute_return ==
  /\ xpc = "x_ret"
  /\ transaction_active' =
       IF xresult.success
         THEN CASE xop = "begin_transaction" -> TRUE
                [] xop \in {"commit_transaction", "rollback_transaction"} -> FALSE
                [] OTHER -> transaction_active
         ELSE transaction_active
  /\ xpc' = "idle"
  /\ xop' = "none"
  /\ query' = <<>>
  /\ skip_safety' = FALSE
  /\ confirm_callback' = None
  /\ confirm' = "not asked"
  /\ needs_transaction' = FALSE
  /\ db_calls' = <<>>
  /\ xresult' = QueryResult(FALSE, <<>>)
  /\ UNCHANGED <<managerVars, guardVars, query_history, dry_run_mode, auto_transaction>>

(* ------------------------------ Next ---------------------------------- *)

Init == InitManager /\ InitRecords /\ InitTasks /\ InitExecutor

Next ==
  \/ \E t \in UserTasks, n \in Names : connect_database(t, n)
  \/ \E t \in UserTasks, n \in Names : disconnect_database(t, n)
  \/ \E t \in UserTasks, is_lazy \in BOOLEAN : connect_all(t, is_lazy)
  \/ \E t \in UserTasks, db \in Names \cup {NoName} : execute_query(t, db)
  \/ \E t \in UserTasks : reconnect(t)
  \/ \E t \in UserTasks : health_check(t)
  \/ \E t \in UserTasks : disconnect_all(t)
  \/ \E t \in UserTasks : disconnect_all_begin(t)
  \/ \E t \in UserTasks, r \in Recs : disconnect_all_close_done(t, r)
  \/ \E t \in UserTasks : disconnect_all_done(t)
  \/ \E t \in UserTasks : execute_query_done(t)
  \/ health_check_loop_pass(LoopTask)
  \/ health_check_loop_next(LoopTask)
  \/ \E t \in Tasks : connect_begin(t)
  \/ \E t \in Tasks : connect_open_done(t)
  \/ \E t \in Tasks : connect_probe_done(t)
  \/ \E t \in Tasks : connect_return(t)
  \/ \E t \in Tasks : disconnect_begin(t)
  \/ \E t \in Tasks : disconnect_close_done(t)
  \/ \E t \in Tasks : disconnect_return(t)
  \/ \E t \in Tasks : health_check_begin(t)
  \/ \E t \in Tasks : health_check_probe_done(t)
  \/ \E t \in Tasks : health_check_return(t)
  \/ \E t \in Tasks : reconnect_begin(t)
  \/ \E t \in Tasks : reconnect_sleep_done(t)
  \/ \E t \in Tasks : finish(t)

Spec == Init /\ [][Next]_vars

\* The executor with one caller of the registry: calls are made one at a
\* time, a connect_database or disconnect_database between two executor
\* calls.
InitExec == InitManager /\ InitRecords /\ InitTasks /\ InitConfigured

NextExec ==
  \/ \E q \in Queries, skip \in BOOLEAN, cb \in {None, "callback"} :
       pc["u1"] = "idle" /\ Recorded < MaxRecordedExec /\ execute(q, skip, cb)
  \/ \E m \in {"begin_transaction", "commit_transaction", "rollback_transaction"} :
       pc["u1"] = "idle" /\ Recorded < MaxRecordedExec /\ transaction_call(m)
  \/ \E answer \in {"yes", "no", "raised"} : execute_confirm_done(answer)
  \/ \E ok \in BOOLEAN : execute_acquire_done(ok)
  \/ \E ok \in BOOLEAN : execute_begin_done(ok)
  \/ \E ok \in BOOLEAN : execute_statement_done(ok)
  \/ \E ok \in BOOLEAN : execute_commit_done(ok)
  \/ \E ok \in BOOLEAN : execute_rollback_done(ok)
  \/ execute_return
  \/ xpc = "idle" /\ connect_database("u1", "a")
  \/ xpc = "idle" /\ disconnect_database("u1", "a")
  \/ connect_begin("u1")
  \/ connect_open_done("u1")
  \/ connect_probe_done("u1")
  \/ connect_return("u1")
  \/ disconnect_begin("u1")
  \/ disconnect_close_done("u1")
  \/ disconnect_return("u1")
  \/ finish("u1")

SpecExec == InitExec /\ [][NextExec]_vars

\* The registry from ConnectionManager() on: targets are added, the active
\* one is switched, and one caller connects, disconnects and executes.
InitRegistry ==
  /\ connections = [n \in Keys |-> NoRec]
  /\ order = <<>>
  /\ active_connection = NoName
  /\ health_check_task = FALSE
  /\ InitRecords /\ InitTasks /\ InitExecutor

NextRegistry ==
  \/ \E n \in Keys : add_database(n)
  \/ \E n \in Keys : switch_database("u1", n)
  \/ \E n \in Keys : connect_database("u1", n)
  \/ \E n \in Keys : disconnect_database("u1", n)
  \/ \E db \in Keys \cup {NoName} : execute_query("u1", db)
  \/ execute_query_done("u1")
  \/ connect_begin("u1")
  \/ connect_open_done("u1")
  \/ connect_probe_done("u1")
  \/ connect_return("u1")
  \/ disconnect_begin("u1")
  \/ disconnect_close_done("u1")
  \/ disconnect_return("u1")
  \/ finish("u1")

SpecRegistry == InitRegistry /\ [][NextRegistry]_vars

\* The executor as constructed, over a registry whose record "a" has been
\* connected by connect_database, running one statement after another.
InitHistory ==
  /\ InitManager /\ InitTasks /\ InitExecutor
  /\ status = [r \in Recs |-> CONNECTED]
  /\ pool = [r \in Recs |-> Pool]
  /\ last_error = [r \in Recs |-> None]
  /\ retry_count = [r \in Recs |-> 0]
  /\ last_health_check = [r \in Recs |-> None]
  /\ callbacks = [r \in Recs |-> <<>>]

NextHistory ==
  \/ \E q \in {<<"SELECT", "t">>, <<"INSERT", "t">>} :
       Recorded < MaxRecorded /\ execute(q, FALSE, None)
  \/ \E ok \in BOOLEAN : execute_acquire_done(ok)
  \/ \E ok \in BOOLEAN : execute_begin_done(ok)
  \/ \E ok \in BOOLEAN : execute_statement_done(ok)
  \/ \E ok \in BOOLEAN : execute_commit_done(ok)
  \/ \E ok \in BOOLEAN : execute_rollback_done(ok)
  \/ execute_return

SpecHistory == InitHistory /\ [][NextHistory]_vars

\* The registry after add_database for "a" and for "b": one caller runs
\* connect_all and disconnect_all over both records while the health-check
\* loop and the reconnect tasks it creates run beside it.
InitFleet ==
  /\ connections = [n \in Keys |-> CASE n = "a" -> 1 [] n = "b" -> 2
                                      [] OTHER -> NoRec]
  /\ order = <<"a", "b">>
  /\ active_connection = "a"
  /\ health_check_task = FALSE
  /\ InitRecords /\ InitTasks /\ InitExecutor

NextFleet ==
  \/ \E is_lazy \in BOOLEAN : connect_all("u1", is_lazy)
  \/ disconnect_all("u1")
  \/ disconnect_all_begin("u1")
  \/ \E r \in Recs : disconnect_all_close_done("u1", r)
  \/ disconnect_all_done("u1")
  \/ health_check_loop_pass(LoopTask)
  \/ health_check_loop_next(LoopTask)
  \/ \E t \in Tasks : connect_begin(t)
  \/ \E t \in Tasks : connect_open_done(t)
  \/ \E t \in Tasks : connect_probe_done(t)
  \/ \E t \in Tasks : connect_return(t)
  \/ \E t \in Tasks : disconnect_begin(t)
  \/ \E t \in Tasks : disconnect_close_done(t)
  \/ \E t \in Tasks : disconnect_return(t)
  \/ \E t \in Tasks : health_check_begin(t)
  \/ \E t \in Tasks : health_check_probe_done(t)
  \/ \E t \in Tasks : health_check_return(t)
  \/ \E t \in Tasks : reconnect_begin(t)
  \/ \E t \in Tasks : reconnect_sleep_done(t)
  \/ \E t \in Tasks : finish(t)

SpecFleet == InitFleet /\ [][NextFleet]_vars

\* The first connect_all of a registry that holds "a" and "b", while a
\* second caller switches the active target; the health-check loop comes
\* into being in the last step of that connect_all.
NextConnectAll ==
  \/ \E is_lazy \in BOOLEAN : ~health_check_task /\ connect_all("u1", is_lazy)
  \/ \E n \in Names : switch_database("u2", n)
  \/ connect_begin("u1")
  \/ connect_open_done("u1")
  \/ connect_probe_done("u1")
  \/ connect_return("u1")
  \/ \E t \in UserTasks : finish(t)

SpecConnectAll == InitFleet /\ [][NextConnectAll]_vars

\* Shutdown while a reconnect task sleeps.  One caller runs connect_all and
\* disconnect_all on the registry of record "a"; it calls disconnect_all
\* once every created reconnect task has reached its sleep, and the backoff
\* sleep (a second or more) outlasts the shutdown: it ends when no loop is
\* registered and the caller is idle.
NextShutdown ==
  \/ \E is_lazy \in BOOLEAN : connect_all("u1", is_lazy)
  \/ (\A s \in SpawnTasks : pc[s] # "r_begin") /\ disconnect_all("u1")
  \/ disconnect_all_begin("u1")
  \/ \E r \in Recs : disconnect_all_close_done("u1", r)
  \/ disconnect_all_done("u1")
  \/ health_check_loop_pass(LoopTask)
  \/ health_check_loop_next(LoopTask)
  \/ \E t \in Tasks : connect_begin(t)
  \/ \E t \in Tasks : connect_open_done(t)
  \/ \E t \in Tasks : connect_probe_done(t)
  \/ \E t \in Tasks : connect_return(t)
  \/ \E t \in Tasks : disconnect_begin(t)
  \/ \E t \in Tasks : disconnect_close_done(t)
  \/ \E t \in Tasks : disconnect_return(t)
  \/ \E t \in Tasks : health_check_begin(t)
  \/ \E t \in Tasks : health_check_probe_done(t)
  \/ \E t \in Tasks : health_check_return(t)
  \/ \E t \in Tasks : reconnect_begin(t)
  \/ \E t \in SpawnTasks :
       ~health_check_task /\ pc["u1"] = "idle" /\ reconnect_sleep_done(t)
  \/ \E t \in Tasks : finish(t)

SpecShutdown == Init /\ [][NextShutdown]_vars

\* The health-check loop over a registry that grows: targets are added
\* while the loop runs, and one caller starts it with connect_all and
\* cancels it with disconnect_all.
NextLoop ==
  \/ \E n \in Names : add_database(n)
  \/ connect_all("u1", TRUE)
  \/ disconnect_all("u1")
  \/ disconnect_all_begin("u1")
  \/ \E r \in Recs : disconnect_all_close_done("u1", r)
  \/ disconnect_all_done("u1")
  \/ health_check_loop_pass(LoopTask)
  \/ health_check_loop_next(LoopTask)
  \/ \E t \in Tasks : connect_begin(t)
  \/ \E t \in Tasks : connect_open_done(t)
  \/ \E t \in Tasks : connect_probe_done(t)
  \/ \E t \in Tasks : connect_return(t)
  \/ \E t \in Tasks : disconnect_begin(t)
  \/ \E t \in Tasks : disconnect_close_done(t)
  \/ \E t \in Tasks : disconnect_return(t)
  \/ \E t \in Tasks : health_check_begin(t)
  \/ \E t \in Tasks : health_check_probe_done(t)
  \/ \E t \in Tasks : health_check_return(t)
  \/ \E t \in Tasks : reconnect_begin(t)
  \/ \E t \in Tasks : reconnect_sleep_done(t)
  \/ \E t \in Tasks : finish(t)

SpecLoop == Init /\ [][NextLoop]_vars

\* A record that is connected through reconnect() only: two callers call
\* reconnect() on the active record, and their calls may overlap.
NextReconnect ==
  \/ \E t \in UserTasks : reconnect(t)
  \/ \E t \in UserTasks : reconnect_begin(t)
  \/ \E t \in UserTasks : reconnect_sleep_done(t)
  \/ \E t \in UserTasks : disconnect_begin(t)
  \/ \E t \in UserTasks : disconnect_close_done(t)
  \/ \E t \in UserTasks : disconnect_return(t)
  \/ \E t \in UserTasks : connect_begin(t)
  \/ \E t \in UserTasks : connect_open_done(t)
  \/ \E t \in UserTasks : connect_probe_done(t)
  \/ \E t \in UserTasks : connect_return(t)
  \/ \E t \in UserTasks : finish(t)

SpecReconnect == Init /\ [][NextReconnect]_vars

\* The registry of "a" and "b" left to itself: a caller starts the
\* health-check loop with connect_all and does nothing after that; the loop and the reconnect
\* tasks it creates run on.  The event loop runs every task that is ready,
\* and every sleep and every awaited call ends, so each task that can move
\* again and again does move.
NextAuto ==
  \/ \E is_lazy \in BOOLEAN : ~health_check_task /\ connect_all("u1", is_lazy)
  \/ health_check_loop_pass(LoopTask)
  \/ health_check_loop_next(LoopTask)
  \/ \E t \in Tasks : connect_begin(t)
  \/ \E t \in Tasks : connect_open_done(t)
  \/ \E t \in Tasks : connect_probe_done(t)
  \/ \E t \in Tasks : connect_return(t)
  \/ \E t \in Tasks : disconnect_begin(t)
  \/ \E t \in Tasks : disconnect_close_done(t)
  \/ \E t \in Tasks : disconnect_return(t)
  \/ \E t \in Tasks : health_check_begin(t)
  \/ \E t \in Tasks : health_check_probe_done(t)
  \/ \E t \in Tasks : health_check_return(t)
  \/ \E t \in Tasks : reconnect_begin(t)
  \/ \E t \in Tasks : reconnect_sleep_done(t)
  \/ \E t \in Tasks : finish(t)

\* A step of NextAuto in which task t moves.
Moves(t) == NextAuto /\ (pc'[t] # pc[t] \/ todo'[t] # todo[t])

SpecAuto ==
  InitFleet /\ [][NextAuto]_vars /\ \A t \in Tasks : SF_vars(Moves(t))

\* One record with status callbacks: the application registers callbacks
\* and one caller connects, disconnects, checks and reconnects the record.
NextCallbacks ==
  \/ \E r \in Recs, callback \in Callbacks : add_callback(r, callback)
  \/ connect_database("u1", "a")
  \/ disconnect_database("u1", "a")
  \/ reconnect("u1")
  \/ health_check("u1")
  \/ connect_begin("u1")
  \/ connect_open_done("u1")
  \/ connect_probe_done("u1")
  \/ connect_return("u1")
  \/ disconnect_begin("u1")
  \/ disconnect_close_done("u1")
  \/ disconnect_return("u1")
  \/ health_check_begin("u1")
  \/ health_check_probe_done("u1")
  \/ health_check_return("u1")
  \/ reconnect_begin("u1")
  \/ reconnect_sleep_done("u1")
  \/ finish("u1")

SpecCallbacks == Init /\ [][NextCallbacks]_vars

(* ===================== claims on the connection record =============== *)

\* No call is in flight: every caller is idle, no reconnect task is alive,
\* and the loop, if started, sleeps between two passes.
Quiescent ==
  /\ cur = NoTask
  /\ \A t \in UserTasks : pc[t] = "idle"
  /\ \A t \in SpawnTasks : pc[t] = "free"
  /\ pc[LoopTask] \in {"off", "l_wait"}

\* C1: between calls (no connect, disconnect, health_check or reconnect in
\* flight) a record holds a pool if and only if its status is CONNECTED.
C1_PoolIffConnected ==
  Quiescent => \A r \in Recs : (pool[r] # None) <=> (status[r] = CONNECTED)

\* C2: when connect() returns, the status is CONNECTED iff pool.open() and
\* the probe both succeeded, otherwise it is FAILED with last_error set; the
\* value returned is a boolean (nothing is raised), true exactly when the
\* status is CONNECTED.
C2_ConnectResult ==
  \A t \in Tasks :
    pc[t] = "c_ret" =>
      /\ (status[rec[t]] = CONNECTED) <=> (outcome[t] = "ok")
      /\ outcome[t] # "ok" =>
           status[rec[t]] = FAILED /\ last_error[rec[t]] # None
      /\ result[t] \in {True, False}
      /\ (result[t] = True) <=> (status[rec[t]] = CONNECTED)

\* connect() has just returned False because the probe raised.
C2_Witness ==
  \E t \in Tasks :
    /\ pc[t] = "c_ret" /\ outcome[t] = "probe"
    /\ result[t] = False /\ status[rec[t]] = FAILED

\* The step in which task t's connect() on record r returns.
ConnectReturns(t, r) ==
  pc[t] \in {"c_open", "c_probe"} /\ rec[t] = r /\ pc'[t] = "c_ret"

\* C3: a connect() that returns True leaves retry_count at 0, one that
\* returns False has raised it by exactly 1, and no other step of any
\* operation changes retry_count.
C3_RetryCount ==
  [][\A r \in Recs :
       /\ \A t \in Tasks :
            ConnectReturns(t, r) =>
              retry_count'[r] = IF result'[t] = True THEN 0 ELSE retry_count[r] + 1
       /\ retry_count'[r] # retry_count[r] => \E t \in Tasks : ConnectReturns(t, r)
    ]_vars

\* A second failed attempt in a row has just raised retry_count to 2.
C3_Witness ==
  \E t \in Tasks :
    pc[t] = "c_ret" /\ result[t] = False /\ retry_count[rec[t]] = 2

\* C4: a reconnect() that finds retry_count >= retry_attempts returns False
\* in that very step: status, pool, last_error and retry_count are as
\* before, no callback runs, and the task goes to no sleep, disconnect or
\* connect.
C4_ReconnectRefused ==
  [][\A t \in Tasks :
       (pc[t] = "r_begin" /\ pc'[t] # "r_begin"
          /\ retry_count[rec[t]] >= RetryAttempts) =>
         /\ pc'[t] = "done" /\ ret'[t] = False
         /\ UNCHANGED <<status, pool, last_error, retry_count, last_health_check>>
         /\ Notify(NoRec)
    ]_vars

\* A reconnect() has been refused on a DISCONNECTED record at the ceiling
\* (a connect() that fails leaves FAILED, so this False is the refusal).
C4_Witness ==
  \E t \in Tasks :
    /\ pc[t] = "done" /\ op[t] = "reconnect" /\ ret[t] = False
    /\ retry_count[rec[t]] >= RetryAttempts
    /\ status[rec[t]] = DISCONNECTED

\* The edges of section 4.1 of the specification.
ListedEdges ==
  { <<NOT_ATTEMPTED, CONNECTING>>,
    <<CONNECTING, CONNECTED>>, <<CONNECTING, FAILED>>,
    <<CONNECTED, DISCONNECTED>>, <<CONNECTED, RECONNECTING>>,
    <<RECONNECTING, CONNECTED>>, <<RECONNECTING, FAILED>>,
    <<FAILED, RECONNECTING>>, <<FAILED, CONNECTING>>,
    <<DISCONNECTED, CONNECTING>> }

\* C5 as stated: every status change is one of the listed edges.
C5_ListedEdgesOnly ==
  [][\A r \in Recs :
       status'[r] # status[r] => <<status[r], status'[r]>> \in ListedEdges]_vars

\* The steps that assign a status.
ConnectStarts(t, r) == pc[t] = "c_begin" /\ rec[t] = r /\ pc'[t] = "c_open"
DisconnectSets(t, r) ==
  \/ pc[t] \in {"d_begin", "d_close"} /\ rec[t] = r /\ pc'[t] = "d_ret"
  \/ /\ pc[t] = "g_wait" /\ pc'[t] = "g_wait"
     /\ (todo'[t] # todo[t] \/ closing'[t] # closing[t])
HealthCheckFails(t, r) ==
  pc[t] = "h_probe" /\ rec[t] = r /\ pc'[t] = "h_ret" /\ result'[t] = False
ReconnectStarts(t, r) == pc[t] = "r_begin" /\ rec[t] = r /\ pc'[t] = "r_sleep"

\* C5, amended: a status changes only to CONNECTING (connect() starts, from
\* any status), to CONNECTED or FAILED (connect() ends, from any status but
\* NOT_ATTEMPTED), to DISCONNECTED (disconnect(), or the failed probe of
\* health_check(), from any status) or to RECONNECTING (reconnect() below
\* the ceiling, from any status); never to NOT_ATTEMPTED.
C5_StatusEdges ==
  [][\A r \in Recs :
       status'[r] # status[r] =>
         CASE status'[r] = CONNECTING ->
                \E t \in Tasks : ConnectStarts(t, r)
           [] status'[r] \in {CONNECTED, FAILED} ->
                /\ status[r] # NOT_ATTEMPTED
                /\ \E t \in Tasks : ConnectReturns(t, r)
           [] status'[r] = DISCONNECTED ->
                \E t \in Tasks : DisconnectSets(t, r) \/ HealthCheckFails(t, r)
           [] status'[r] = RECONNECTING ->
                /\ retry_count[r] < RetryAttempts
                /\ \E t \in Tasks : ReconnectStarts(t, r)
           [] OTHER -> FALSE
    ]_vars

\* reconnect() has taken a record from RECONNECTING through disconnect()
\* (DISCONNECTED) into connect() (CONNECTING): two edges that are not listed.
C5_Witness ==
  \E t \in Tasks :
    /\ op[t] = "reconnect" /\ pc[t] = "c_begin"
    /\ status[rec[t]] = DISCONNECTED

\* C6 as stated: a record leaves DISCONNECTED only in a step of a caller's
\* task, never in a step of the loop or of a reconnect task it created.
C6_DisconnectedUntilExplicitConnect ==
  [][\A r \in Recs :
       (status[r] = DISCONNECTED /\ status'[r] # DISCONNECTED) =>
         \E t \in UserTasks : pc'[t] # pc[t] /\ rec[t] = r]_vars

\* C6, amended: a record leaves DISCONNECTED only when connect() starts or
\* ends on it or reconnect() starts on it, in a caller's task or in a
\* reconnect task the loop created; no step of the loop itself moves it.
C6_DisconnectedUntilConnectOrReconnect ==
  [][\A r \in Recs :
       (status[r] = DISCONNECTED /\ status'[r] # DISCONNECTED) =>
         /\ pc'[LoopTask] = pc[LoopTask]
         /\ \E t \in UserTasks \cup SpawnTasks :
              \/ ConnectStarts(t, r) /\ status'[r] = CONNECTING
              \/ ConnectReturns(t, r) /\ status'[r] \in {CONNECTED, FAILED}
              \/ ReconnectStarts(t, r) /\ status'[r] = RECONNECTING
    ]_vars

\* With every caller idle, the reconnect task the loop created after a
\* failed check has moved the record from DISCONNECTED to RECONNECTING.
C6_Witness ==
  \E s \in SpawnTasks :
    /\ pc[s] = "r_sleep" /\ status[rec[s]] = RECONNECTING
    /\ \A t \in UserTasks : pc[t] = "idle"

\* The active record holds a pool, so a call that goes on reaches the
\* database.
PoolAtHand ==
  get_active_connection # NoRec /\ pool[get_active_connection] # None

\* An execute() call by the application is in progress or about to return.
InExecute == xpc # "idle" /\ xop = "execute"

\* C7: whenever check_query rejects the query of an execute() call made
\* with skip_safety false, the call returns (does not raise) a failed
\* QueryResult whose error is the rejection message followed by the
\* suggestion when there is one; it acquires no connection, executes no
\* statement and invokes no confirmation callback.
C7_RejectedQueryNotExecuted ==
  (InExecute /\ ~skip_safety /\ ~check_query(query).is_safe) =>
    /\ xpc = "x_ret"
    /\ ~xresult.raised /\ ~xresult.success
    /\ SubSeq(xresult.error, 1, Len(check_query(query).message))
         = check_query(query).message
    /\ Len(check_query(query).message) >= 1
    /\ suggest_safer_query(query) # <<>> =>
         SubSeq(xresult.error, Len(xresult.error)
                                 - Len(suggest_safer_query(query)) + 1,
                Len(xresult.error)) = suggest_safer_query(query)
    /\ suggest_safer_query(query) = <<>> =>
         xresult.error = check_query(query).message
    /\ db_calls = <<>>
    /\ confirm = "not asked"

\* A rejected query for which there is a suggestion has been returned, with
\* a callback supplied and a pool at hand.
C7_Witness ==
  /\ InExecute /\ xpc = "x_ret" /\ ~skip_safety
  /\ ~check_query(query).is_safe
  /\ suggest_safer_query(query) # <<>>
  /\ confirm_callback # None
  /\ ~dry_run_mode /\ PoolAtHand
  /\ ~xresult.success

\* The first blacklist rule that matches the query, as check_query reads it,
\* is CRITICAL or HIGH.
SevereFirst ==
  LET b == FirstMatching(blacklist_rules, strip(query))
  IN b # 0 /\ blacklist_rules[b].severity \in {CRITICAL, HIGH}

\* execute() has ended in a failed result without the callback or the
\* database.
RefusedUntouched ==
  /\ xpc = "x_ret"
  /\ ~xresult.raised /\ ~xresult.success
  /\ confirm = "not asked"
  /\ db_calls = <<>>

\* C8 as stated: an execute() call (skip_safety false) on a query whose
\* first matching blacklist rule is CRITICAL or HIGH returns a failed result
\* and neither invokes the callback nor touches the database.
C8_SevereRuleRejects ==
  (InExecute /\ ~skip_safety /\ SevereFirst) => RefusedUntouched

\* C8, amended: with the blacklist enabled, an execute() call (skip_safety
\* false) on a query whose first matching blacklist rule is CRITICAL or HIGH
\* returns a failed result, also when that rule has allow_with_confirmation,
\* and neither invokes the callback nor touches the database.
C8_EnabledSevereRuleRejects ==
  (InExecute /\ ~skip_safety /\ blacklist_enabled /\ SevereFirst) =>
    RefusedUntouched

\* A query whose first matching rule is CRITICAL with allow_with_confirmation
\* has been refused by the blacklist (read-only mode is off), with a
\* callback supplied and a pool at hand.
C8_Witness ==
  /\ InExecute /\ xpc = "x_ret" /\ ~skip_safety
  /\ blacklist_enabled /\ ~read_only_mode /\ SevereFirst
  /\ blacklist_rules[FirstMatching(blacklist_rules, strip(query))]
       .allow_with_confirmation
  /\ confirm_callback # None
  /\ ~dry_run_mode /\ PoolAtHand
  /\ ~xresult.success

\* C9: when the query is accepted, its matched rule has
\* allow_with_confirmation and a callback is supplied, the callback is
\* asked; when it answers false, execute() returns a failed result with the
\* error "Query cancelled by user", no connection has been acquired and no
\* statement, BEGIN included, has been executed.
C9_DeclinedQueryNotExecuted ==
  /\ (InExecute /\ xpc = "x_ret" /\ ~skip_safety
        /\ check_query(query).is_safe
        /\ check_query(query).rule # NoRule
        /\ check_query(query).rule.allow_with_confirmation
        /\ confirm_callback # None) => confirm # "not asked"
  /\ (xpc # "idle" /\ confirm = "no") =>
       /\ xpc = "x_ret"
       /\ xresult = QueryResult(FALSE, <<"Query cancelled by user">>)
       /\ db_calls = <<>>

\* The callback has declined a query accepted by a blacklist rule, with a
\* pool at hand and dry run off.
C9_Witness ==
  /\ xpc = "x_ret" /\ confirm = "no"
  /\ check_query(query).rule.severity = MEDIUM
  /\ ~dry_run_mode /\ PoolAtHand

\* The condition under which execute() wraps the statement.
WrapCondition ==
  auto_transaction /\ ~transaction_active /\ _is_modifying_query(query)

Issued(call) == \E i \in 1..Len(db_calls) : db_calls[i].call = call

\* C10: execute() sends BEGIN just before the statement exactly when
\* auto_transaction is on, transaction_active is clear and the statement is
\* modifying; then a statement that succeeds is followed by COMMIT and one
\* that raises by ROLLBACK with no COMMIT; when the condition is false no
\* BEGIN, COMMIT or ROLLBACK is sent.
C10_AutoTransaction ==
  xpc # "idle" =>
    /\ \A i \in 1..Len(db_calls) :
         db_calls[i].call = "statement" =>
           /\ WrapCondition <=> (i > 1 /\ db_calls[i - 1] = DbCall("BEGIN", TRUE))
           /\ (WrapCondition /\ xpc = "x_ret" /\ db_calls[i].ok) =>
                (Len(db_calls) > i /\ db_calls[i + 1].call = "COMMIT")
           /\ (WrapCondition /\ xpc = "x_ret" /\ ~db_calls[i].ok) =>
                /\ Len(db_calls) > i /\ db_calls[i + 1].call = "ROLLBACK"
                /\ ~Issued("COMMIT")
    /\ (WrapCondition /\ db_calls # <<>> /\ db_calls[1].ok /\ xpc = "x_ret") =>
         Issued("BEGIN")
    /\ ~WrapCondition =>
         ~Issued("BEGIN") /\ ~Issued("COMMIT") /\ ~Issued("ROLLBACK")

\* A lower-case, indented INSERT has raised inside its own transaction and
\* was rolled back.
C10_Witness ==
  /\ xpc = "x_ret" /\ WrapCondition
  /\ query[1] = Space
  /\ db_calls = <<DbCall("connection", TRUE), DbCall("BEGIN", TRUE),
                  DbCall("statement", FALSE), DbCall("ROLLBACK", TRUE)>>
  /\ ~xresult.success

\* C11: execute() never raises to its caller: whatever raises during the
\* call, the call ends in a QueryResult, and a failed one carries an error
\* text.
C11_ExecuteNeverRaises ==
  (xpc = "x_ret" /\ xop = "execute") =>
    /\ ~xresult.raised
    /\ ~xresult.success => xresult.error # <<>>

\* The message of a read-only rejection.
ReadOnlyMessage == <<"Read-only mode: Only SELECT queries are allowed">>

\* The blacklist takes the decision on q: it is enabled and one of its rules
\* matches.
BlacklistDecides(q) ==
  blacklist_enabled /\ FirstMatching(blacklist_rules, strip(q)) # 0

\* What the blacklist and whitelist steps say about q: the first matching
\* blacklist rule accepts only when it is neither CRITICAL nor HIGH and has
\* allow_with_confirmation; an enabled, non-empty whitelist accepts only
\* what one of its rules matches; anything else is accepted.
RuleStepsAccept(q) ==
  IF BlacklistDecides(q)
    THEN LET r == blacklist_rules[FirstMatching(blacklist_rules, strip(q))]
         IN r.severity \notin {CRITICAL, HIGH} /\ r.allow_with_confirmation
    ELSE (whitelist_enabled /\ whitelist_rules # <<>>) =>
           \E i \in 1..Len(whitelist_rules) : matches(whitelist_rules[i], strip(q))

\* C12: in read-only mode check_query rejects, with no matched rule, every
\* query that does not start with an allowed read-only prefix, whatever the
\* lists hold and whether they are enabled; a query with an allowed prefix
\* is accepted only if the blacklist and whitelist steps accept it.
C12_ReadOnlyRejectsFirst ==
  read_only_mode =>
    \A q \in Queries :
      IF read_only_allowed(strip(q))
        THEN check_query(q).is_safe <=> RuleStepsAccept(q)
        ELSE check_query(q) = Verdict(FALSE, NoRule, ReadOnlyMessage)

\* In read-only mode execute() has returned the read-only rejection for a
\* DELETE that an enabled blacklist rule would have let through with
\* confirmation.
C12_Witness ==
  /\ InExecute /\ xpc = "x_ret" /\ ~skip_safety
  /\ read_only_mode /\ ~read_only_allowed(strip(query))
  /\ BlacklistDecides(query) /\ RuleStepsAccept(query)
  /\ xresult.error[1] = ReadOnlyMessage[1]

\* Read-only mode rejects q.
ReadOnlyRejects(q) == read_only_mode /\ ~read_only_allowed(strip(q))

\* C13: when read-only mode does not reject and the enabled blacklist has a
\* matching rule, the first such rule in registration order decides:
\* CRITICAL or HIGH rejects whatever allow_with_confirmation is; otherwise
\* allow_with_confirmation accepts with the rule's message behind a warning
\* prefix; otherwise the rule rejects with its message.  The rule is the
\* matched rule in all three cases; later blacklist rules and the whitelist
\* have no say.
C13_FirstBlacklistRuleDecides ==
  \A q \in Queries :
    (~ReadOnlyRejects(q) /\ BlacklistDecides(q)) =>
      LET r == blacklist_rules[FirstMatching(blacklist_rules, strip(q))]
          v == check_query(q)
      IN /\ v.rule = r
         /\ IF r.severity \in {CRITICAL, HIGH}
              THEN ~v.is_safe /\ v.message = <<r.message>>
            ELSE IF r.allow_with_confirmation
              THEN /\ v.is_safe
                   /\ Len(v.message) = 2 /\ v.message[2] = r.message
                   /\ v.message[1] # r.message
            ELSE ~v.is_safe /\ v.message = <<r.message>>

\* A DELETE was accepted through its first matching rule (MEDIUM, with
\* confirmation) and went on to the database, although a HIGH rule further
\* down the list matches it too and the enabled whitelist has no rule for it.
C13_Witness ==
  /\ InExecute /\ ~skip_safety /\ xpc = "x_stmt"
  /\ ~ReadOnlyRejects(query) /\ BlacklistDecides(query)
  /\ check_query(query).rule.severity = MEDIUM
  /\ \E i \in 1..Len(blacklist_rules) :
       /\ matches(blacklist_rules[i], strip(query))
       /\ blacklist_rules[i].severity = HIGH
  /\ whitelist_enabled /\ whitelist_rules # <<>>
  /\ FirstMatching(whitelist_rules, strip(query)) = 0

\* C14: when read-only mode does not reject and the blacklist does not
\* decide (no rule matches, or it is disabled): an enabled, non-empty
\* whitelist accepts exactly the queries one of its rules matches and
\* rejects the others as not in whitelist; a disabled or empty whitelist
\* accepts every query.
C14_WhitelistThenDefault ==
  \A q \in Queries :
    (~ReadOnlyRejects(q) /\ ~BlacklistDecides(q)) =>
      LET v == check_query(q)
          listed == \E i \in 1..Len(whitelist_rules) :
                      matches(whitelist_rules[i], strip(q))
      IN IF whitelist_enabled /\ whitelist_rules # <<>>
           THEN /\ v.is_safe <=> listed
                /\ ~listed => v = Verdict(FALSE, NoRule, <<"Query not in whitelist">>)
           ELSE v.is_safe /\ v.rule = NoRule

\* execute() has returned "Query not in whitelist" for a query that matches
\* a rule of the disabled blacklist and no rule of the enabled whitelist.
C14_Witness ==
  /\ InExecute /\ xpc = "x_ret" /\ ~skip_safety
  /\ ~read_only_mode /\ ~blacklist_enabled
  /\ FirstMatching(blacklist_rules, strip(query)) # 0
  /\ whitelist_enabled /\ whitelist_rules # <<>>
  /\ ~xresult.success /\ xresult.error[1] = "Query not in whitelist"

\* C15: the history never holds more than 1000 results, and it is always
\* the most recent recorded results in the order of recording: a result
\* recorded into a full history pushes out exactly the oldest one, so after
\* 1500 recorded results it holds the 501st to the 1500th.
C15_HistoryCapped ==
  /\ [](/\ Len(query_history) <= 1000
        /\ query_history =
             [i \in 1..(IF Recorded > 1000 THEN 1000 ELSE Recorded) |->
                (IF Recorded > 1000 THEN Recorded - 1000 ELSE 0) + i])
  /\ [][/\ (xpc \in {"x_stmt", "x_commit"} /\ xpc' = "x_ret"
              /\ xresult'.success) => query_history' # query_history
        /\ query_history' # query_history =>
             query_history' =
               Append(IF Len(query_history) = 1000
                        THEN Tail(query_history) ELSE query_history,
                      Recorded + 1)
       ]_vars

\* 1500 results have been recorded.
C15_Witness ==
  /\ Recorded = 1500
  /\ Len(query_history) = 1000 /\ query_history[1] = 501

\* C16: the active name is unset or the key of a record in the registry, so
\* get_active_connection returns that record whenever the active name is
\* set.
C16_ActiveNameRegistered ==
  active_connection # NoName =>
    /\ active_connection \in Keys
    /\ connections[active_connection] # NoRec
    /\ get_active_connection = connections[active_connection]

\* C17: given a name that is not registered, switch_database returns False
\* and leaves the active name as it is, connect_database returns False and
\* disconnect_database returns at once; none of them raises, and none
\* changes the registry or the status, pool or any other field of a record.
C17_UnknownNameNoEffect ==
  [][\A t \in UserTasks, n \in Keys :
       connections[n] = NoRec =>
         /\ switch_database(t, n) =>
              /\ pc'[t] = "done" /\ ret'[t] = False
              /\ UNCHANGED <<connVars, recVars>>
         /\ connect_database(t, n) =>
              /\ pc'[t] = "done" /\ ret'[t] = False
              /\ UNCHANGED <<connVars, recVars>>
         /\ disconnect_database(t, n) =>
              /\ pc'[t] = "done" /\ ret'[t] = None
              /\ UNCHANGED <<connVars, recVars>>
    ]_vars

\* With "a" registered, connected and active, switch_database("b") has
\* returned False.
C17_Witness ==
  /\ connections["b"] = NoRec
  /\ \E t \in UserTasks :
       pc[t] = "done" /\ op[t] = "switch_database" /\ ret[t] = False
  /\ active_connection = "a" /\ status[connections["a"]] = CONNECTED

\* C18: whenever a disconnect() call ends, in whatever state it was made,
\* the record is DISCONNECTED and holds no pool (so a second call finds and
\* leaves that same state).
C18_DisconnectUnconditional ==
  [][\A t \in Tasks :
       (pc[t] \in {"d_begin", "d_close"} /\ pc'[t] \notin {"d_begin", "d_close"}) =>
         status'[rec[t]] = DISCONNECTED /\ pool'[rec[t]] = None
    ]_vars

\* C19: health_check() on a record that is not CONNECTED or has no pool
\* returns False and changes nothing; otherwise it probes, and a probe that
\* succeeds returns True and changes only last_health_check, one that fails
\* sets DISCONNECTED and last_error and returns False.  No step of
\* health_check() sets CONNECTING or RECONNECTING or changes retry_count or
\* the pool.
C19_HealthCheckFrame ==
  [][\A t \in Tasks :
       /\ (pc[t] = "h_begin" /\ pc'[t] \in {"h_probe", "h_ret"}) =>
            /\ UNCHANGED recVars
            /\ IF status[rec[t]] # CONNECTED \/ pool[rec[t]] = None
                 THEN pc'[t] = "h_ret" /\ result'[t] = False
                 ELSE pc'[t] = "h_probe"
       /\ (pc[t] = "h_probe" /\ pc'[t] = "h_ret") =>
            /\ result'[t] \in {True, False}
            /\ UNCHANGED <<pool, retry_count>>
            /\ result'[t] = True =>
                 /\ UNCHANGED <<status, last_error>>
                 /\ last_health_check'[rec[t]] = Stamp
            /\ result'[t] = False =>
                 /\ status'[rec[t]] = DISCONNECTED
                 /\ last_error'[rec[t]] = Err
                 /\ UNCHANGED last_health_check
            /\ \A r \in Recs \ {rec[t]} :
                 status'[r] = status[r] /\ last_error'[r] = last_error[r]
                   /\ last_health_check'[r] = last_health_check[r]
    ]_vars

\* A caller's health_check() has found the probe failing on a record that
\* was CONNECTED: DISCONNECTED, last_error set, the pool still there.
C19_Witness ==
  \E t \in UserTasks :
    /\ pc[t] = "h_ret" /\ op[t] = "health_check" /\ result[t] = False
    /\ status[rec[t]] = DISCONNECTED /\ last_error[rec[t]] = Err
    /\ pool[rec[t]] # None

\* C20: at most one health-check loop task runs: the loop runs exactly
\* while self._health_check_task is set, it is started only by a
\* connect_all() that finds the handle unset, and a connect_all() that
\* finishes while the handle is set leaves the running loop as it is.
C20_SingleLoopTask ==
  /\ [](health_check_task <=> pc[LoopTask] # "off")
  /\ [][/\ (pc[LoopTask] = "off" /\ pc'[LoopTask] # "off") =>
             /\ ~health_check_task /\ health_check_task'
             /\ pc'[LoopTask] = "l_wait"
             /\ \E t \in UserTasks :
                  pc[t] # "done" /\ pc'[t] = "done" /\ op'[t] = "connect_all"
        /\ \A t \in UserTasks :
             (pc[t] # "done" /\ pc'[t] = "done" /\ op'[t] = "connect_all"
                /\ health_check_task) =>
               /\ health_check_task'
               /\ pc'[LoopTask] = pc[LoopTask]
               /\ todo'[LoopTask] = todo[LoopTask]
               /\ rec'[LoopTask] = rec[LoopTask]
       ]_vars

\* A connect_all() has finished while the loop, started by an earlier one,
\* is in the middle of a probe, and another connect_all() is still
\* connecting.
C20_Witness ==
  /\ \E t \in UserTasks : pc[t] = "done" /\ op[t] = "connect_all"
  /\ \E t \in UserTasks : op[t] = "connect_all" /\ pc[t] \in {"c_open", "c_probe"}
  /\ health_check_task /\ pc[LoopTask] = "h_probe"

(* ======================= claims of the third group =================== *)

\* The records registered in self.connections.
Registered == {connections[n] : n \in {k \in Keys : connections[k] # NoRec}}

\* The step in which task t's disconnect_all() completes (gather returns).
DisconnectAllCompletes(t) == pc[t] = "g_wait" /\ pc'[t] = "done"

\* C21: when disconnect_all() completes, no loop task is registered or
\* running and every registered record is DISCONNECTED and holds no pool.
C21_DisconnectAllLeavesAllDisconnected ==
  [][\A t \in UserTasks :
       DisconnectAllCompletes(t) =>
         /\ ~health_check_task' /\ pc'[LoopTask] = "off"
         /\ \A r \in Registered :
              status'[r] = DISCONNECTED /\ pool'[r] = None
    ]_vars

\* The record execute_query(database=db) is to run on: the one named, or
\* without a name the one get_active_connection returns; NoRec if there is
\* none.
Target(db) == IF Truthy(db) THEN connections[db] ELSE get_active_connection

ConnectAllCalled(t) == pc[t] = "idle" /\ op'[t] = "connect_all"
ConnectAllStores(t) ==
  op[t] = "connect_all" /\ pc[t] = "c_ret" /\ pc'[t] # "c_ret"
ConnectAllStep(t) == ConnectAllCalled(t) \/ (op[t] = "connect_all" /\ pc'[t] # pc[t])

\* The records a task has still to attempt, the current one first.
Attempting(t) == IF pc'[t] = "c_begin" THEN <<rec'[t]>> \o todo'[t] ELSE <<>>

\* C23: connect_all(lazy=True) attempts the active record alone, and
\* connect_all(lazy=False) every registered record, going on to the next
\* whatever the one before returned; no step of connect_all changes the
\* status or the pool of a record other than the one being attempted; and
\* the value connect() returns for a record is stored in the dict under
\* that record's name, every other entry staying as it was.
C23_ConnectAllResults ==
  [][\A t \in UserTasks :
       /\ ConnectAllCalled(t) =>
            Attempting(t) = IF lazy'[t]
                              THEN IF get_active_connection # NoRec
                                     THEN <<get_active_connection>> ELSE <<>>
                              ELSE Values
       /\ ConnectAllStep(t) =>
            \A r \in Recs \ {rec[t]} : status'[r] = status[r] /\ pool'[r] = pool[r]
       /\ ConnectAllStores(t) =>
            /\ Attempting(t) = todo[t]
            /\ \E n \in Keys :
                 /\ connections[n] = rec[t]
                 /\ results'[t] = [results[t] EXCEPT ![n] = result[t]]
    ]_vars

\* The result of a dry run.
DryRunResult == QueryResult(TRUE, <<"DRY RUN: Query not executed">>)

\* C24: in dry-run mode an execute() call (the application's, or the one a
\* transaction method makes) acquires no connection and executes no
\* statement; it returns the rejection when the guard rejects the query,
\* "Query cancelled by user" when the callback declines, and in every other
\* case in which it returns a result the successful DRY RUN result, whose
\* execution time is 0.
C24_DryRun ==
  (dry_run_mode /\ xpc # "idle" /\ query # <<>>) =>
    /\ db_calls = <<>>
    /\ xpc \in {"x_confirm", "x_ret"}
    /\ xpc = "x_ret" =>
         IF ~skip_safety /\ ~check_query(query).is_safe
           THEN /\ ~xresult.raised /\ ~xresult.success
                /\ confirm = "not asked"
                /\ xresult.error # DryRunResult.error
         ELSE IF confirm = "no"
           THEN xresult = QueryResult(FALSE, <<"Query cancelled by user">>)
         ELSE IF confirm = "raised"
           THEN xresult.raised
         ELSE /\ xresult = DryRunResult
              /\ xresult.success /\ xresult.execution_time = "0"

\* In dry-run mode a modifying statement that the callback confirmed has
\* returned the DRY RUN result although a pool was at hand.
C24_Witness ==
  /\ dry_run_mode /\ xpc = "x_ret" /\ xop = "execute"
  /\ confirm = "yes" /\ _is_modifying_query(query)
  /\ PoolAtHand
  /\ xresult = DryRunResult

\* The three transaction methods.
TransactionMethods ==
  {"begin_transaction", "commit_transaction", "rollback_transaction"}

\* Method m is called against the flag: begin while it is set, commit or
\* rollback while it is clear.
Misuse(m) == transaction_active = (m = "begin_transaction")

\* C25: a transaction method called against the flag returns a failed result
\* at once, with the flag unchanged and no database call; otherwise the
\* method's return sets the flag after a successful BEGIN, clears it after a
\* successful COMMIT or ROLLBACK and leaves it alone after a failed
\* statement; no other step changes the flag.
C25_TransactionMethods ==
  [][ /\ \A m \in TransactionMethods :
           (transaction_call(m) /\ Misuse(m)) =>
             /\ xpc' = "x_ret"
             /\ ~xresult'.success
             /\ xresult'.error \in {<<"Transaction already active">>,
                                    <<"No active transaction">>}
             /\ db_calls' = <<>> /\ query' = <<>>
             /\ transaction_active' = transaction_active
      /\ (xpc = "x_ret" /\ xop \in TransactionMethods) =>
           /\ query = <<>> => (~xresult.success /\ db_calls = <<>>)
           /\ transaction_active' =
                IF xresult.success
                  THEN xop = "begin_transaction"
                  ELSE transaction_active
      /\ ~(xpc = "x_ret" /\ xop \in TransactionMethods) =>
           transaction_active' = transaction_active
    ]_vars

\* begin_transaction was called while the flag was set by an earlier
\* successful begin, with a pool at hand, and has returned its failed result.
C25_Witness ==
  /\ xpc = "x_ret" /\ xop = "begin_transaction"
  /\ transaction_active /\ query = <<>>
  /\ PoolAtHand /\ ~dry_run_mode
  /\ xresult = QueryResult(FALSE, <<"Transaction already active">>)

\* The calls of the last step are one per registered callback of record r,
\* in the order of the list, each given r in the status r has after the step.
EachCalledOnce(r) ==
  /\ Len(called') = Len(callbacks[r])
  /\ \A i \in 1..Len(callbacks[r]) :
       /\ called'[i].callback = callbacks[r][i]
       /\ called'[i].record = r
       /\ called'[i].status = status'[r]

\* C26: a step that changes a record's status calls every registered
\* callback of the record once within the step, with the record in its new
\* status, whether or not an earlier callback raised; a step in which a
\* callback raised raises nothing into any operation, and a connect() whose
\* probe succeeded returns True with the record CONNECTED.
C26_CallbacksNotified ==
  [][ /\ \A r \in Recs : status'[r] # status[r] => EachCalledOnce(r)
      /\ (\E i \in 1..Len(called') : called'[i].raised) =>
           \A t \in Tasks : ret'[t] = "raised" => ret[t] = "raised"
      /\ \A t \in Tasks :
           (pc[t] = "c_probe" /\ pc'[t] = "c_ret" /\ outcome'[t] = "ok") =>
             (result'[t] = True /\ status'[rec[t]] = CONNECTED)
    ]_vars

\* A record with a raising callback registered before a returning one has
\* become CONNECTED: both were called, the second after the first raised,
\* and connect() is returning True.
C26_Witness ==
  /\ Len(called) = MaxCallbacks
  /\ called[1].raised /\ ~called[MaxCallbacks].raised
  /\ called[MaxCallbacks].status = CONNECTED
  /\ pc["u1"] = "c_ret" /\ result["u1"] = True
  /\ status[rec["u1"]] = CONNECTED

\* What the claim says of add_database(name): the first target registered
\* becomes the active one, a later registration leaves the active name as it
\* is, a known name gets a new record in NOT_ATTEMPTED, and the active name
\* names a registered record afterwards.
AddTargetAsClaimed(name) ==
  /\ order = <<>> => active_connection' = name
  /\ order # <<>> => active_connection' = active_connection
  /\ connections[name] # NoRec =>
       /\ connections'[name] # connections[name]
       /\ status'[connections'[name]] = NOT_ATTEMPTED
  /\ active_connection' \in Keys
  /\ connections'[active_connection'] # NoRec

\* C27: add_database makes the first target ever registered the active one
\* and never changes the active name on a later registration; a name that
\* exists gets a new record in NOT_ATTEMPTED, and the active name still
\* names a registered record.
C27_AddTargetActive ==
  [][\A name \in Keys : add_database(name) => AddTargetAsClaimed(name)]_vars

\* Task t is running reconnect() on record r and is between its
\* RECONNECTING step and the end of its connect().
InFlight(t, r) ==
  /\ op[t] = "reconnect" /\ rec[t] = r
  /\ pc[t] \in {"r_sleep", "d_begin", "d_close", "d_ret",
                "c_begin", "c_open", "c_probe", "c_ret"}

\* C28: a reconnect() below the retry ceiling takes its RECONNECTING step
\* and goes to sleep also when another reconnect() is in flight on the same
\* record, and the other one stays in flight: nothing per record keeps out
\* the state in which a caller's reconnect() and one spawned by the
\* health-check loop are both in flight.
C28_ReconnectsOverlap ==
  [][\A t \in Tasks, u \in Tasks :
       ( /\ t # u /\ InFlight(u, rec[t])
         /\ retry_count[rec[t]] < RetryAttempts
         /\ reconnect_begin(t) ) =>
           /\ status'[rec[t]] = RECONNECTING
           /\ pc'[t] = "r_sleep"
           /\ pc'[u] = pc[u] /\ op'[u] = op[u] /\ rec'[u] = rec[t]
    ]_vars

\* A caller's reconnect() and a spawned one are in flight on one record.
C28_Witness ==
  \E u \in UserTasks, s \in SpawnTasks, r \in Recs :
    InFlight(u, r) /\ InFlight(s, r)

\* A step of disconnect_all made by caller t.
DisconnectAllStep(t) ==
  \/ disconnect_all(t)
  \/ disconnect_all_begin(t)
  \/ \E r \in Recs : disconnect_all_close_done(t, r)
  \/ disconnect_all_done(t)

\* C29: no step of disconnect_all cancels a reconnect task the loop
\* created: the task stays where it is, on its record, and a task asleep
\* when disconnect_all returns is still asleep and due to wake.
C29_ReconnectOutlivesDisconnectAll ==
  [][\A t \in UserTasks : DisconnectAllStep(t) =>
       \A s \in SpawnTasks :
         pc'[s] = pc[s] /\ op'[s] = op[s] /\ rec'[s] = rec[s]]_vars

\* disconnect_all has returned with a reconnect task asleep (no loop is
\* registered, the caller is idle, and under SpecShutdown the task slept
\* from before the call until after its return); the task has since run
\* disconnect() and connect(), and the record is CONNECTED with a pool.
C29_Witness ==
  /\ ~health_check_task /\ pc[LoopTask] = "off"
  /\ \A t \in UserTasks : pc[t] = "idle"
  /\ \E s \in SpawnTasks :
       /\ op[s] = "reconnect" /\ pc[s] = "c_ret" /\ result[s] = True
       /\ status[rec[s]] = CONNECTED /\ pool[rec[s]] # None

\* The loop has a record left in its pass and takes the next one.
LoopTakesNext ==
  /\ todo[LoopTask] # <<>>
  /\ health_check_loop_next(LoopTask)

\* The health_check() the loop awaited has returned False to it.
LoopCheckFailed ==
  /\ op[LoopTask] = "loop" /\ result[LoopTask] = False
  /\ health_check_return(LoopTask)

\* C30: in a pass the loop calls health_check() on the next record only if
\* the record is CONNECTED (always if it was never checked, else when the
\* check is due) and skips it otherwise; when a check returns False the
\* loop creates a reconnect task for that record and, in the same
\* synchronous stretch, is back at the records that are left, whatever the
\* reconnect tasks are doing.
C30_LoopChecksConnectedOnly ==
  [][ /\ LoopTakesNext =>
           LET conn == Head(todo[LoopTask]) IN
             /\ todo'[LoopTask] = Tail(todo[LoopTask])
             /\ cur' = LoopTask
             /\ IF pc'[LoopTask] = "h_begin"
                  THEN rec'[LoopTask] = conn /\ status[conn] = CONNECTED
                  ELSE /\ pc'[LoopTask] = "l_iter"
                       /\ \/ status[conn] # CONNECTED
                          \/ last_health_check[conn] # None
      /\ LoopCheckFailed =>
           /\ \E s \in SpawnTasks :
                /\ pc[s] = "free" /\ pc'[s] = "r_begin"
                /\ op'[s] = "reconnect" /\ rec'[s] = rec[LoopTask]
           /\ pc'[LoopTask] = "l_iter" /\ cur' = LoopTask
           /\ todo'[LoopTask] = todo[LoopTask]
    ]_vars

\* The reconnect task of the first record is in its backoff sleep while the
\* loop, in the same pass, awaits the probe of the second record.
C30_Witness ==
  /\ pc[LoopTask] = "h_probe" /\ rec[LoopTask] = connections[order[2]]
  /\ \E s \in SpawnTasks :
       /\ op[s] = "reconnect" /\ pc[s] = "r_sleep"
       /\ rec[s] = connections[order[1]]

(* ====================== claims of the fourth group ==================== *)

\* C31: the health-check loop runs exactly as long as it is registered: it
\* ends only in the step in which disconnect_all cancels it, and that step
\* ends it; the RuntimeError its iterator raises after the dict has changed
\* size is logged, and the loop is at the start of a new pass afterwards.
C31_LoopRunsUntilCancelled ==
  [][ /\ health_check_task' <=> pc'[LoopTask] # "off"
      /\ (pc[LoopTask] # "off" /\ pc'[LoopTask] = "off") =>
           \E t \in UserTasks : disconnect_all(t)
      /\ \A t \in UserTasks :
           (health_check_task /\ disconnect_all(t)) => pc'[LoopTask] = "off"
      /\ (outcome[LoopTask] = "resized" /\ health_check_loop_next(LoopTask)) =>
           /\ pc'[LoopTask] = "l_iter" /\ cur' = LoopTask
           /\ todo'[LoopTask] = Values
           /\ outcome'[LoopTask] = "logged"
    ]_vars

\* After logging the RuntimeError the loop is awaiting a health check in
\* the pass it began then.
C31_Witness ==
  /\ outcome[LoopTask] = "logged"
  /\ pc[LoopTask] = "h_probe"
  /\ health_check_task

\* The order of the steps of a reconnect() that is not refused: the
\* RECONNECTING step, the sleep, disconnect() (with or without a pool to
\* close), connect(), the return.
ReconnectOrder ==
  { <<"r_begin", "r_sleep">>, <<"r_sleep", "d_begin">>,
    <<"d_begin", "d_close">>, <<"d_begin", "d_ret">>, <<"d_close", "d_ret">>,
    <<"d_ret", "c_begin">>, <<"c_begin", "c_open">>, <<"c_open", "c_probe">>,
    <<"c_open", "c_ret">>, <<"c_probe", "c_ret">>, <<"c_ret", "done">> }

\* Task t, running reconnect(), moves on.
ReconnectMoves(t) == op[t] = "reconnect" /\ pc'[t] # pc[t] /\ pc[t] # "done"

ReturnsAfterStatement ==
  /\ xpc # "x_ret" /\ xpc' = "x_ret"
  /\ \E i \in 1..Len(db_calls') : db_calls'[i].call = "statement"

\* C33: an execute() call that has run its statement appends exactly one
\* result to the history when it returns, whether the statement succeeded
\* or failed.
C33_EveryOutcomeRecorded ==
  [][ReturnsAfterStatement => Recorded' = Recorded + 1]_vars

\* Record r references a pool that is open: the record is CONNECTED with a
\* pool and no connect() is under way on it, so the pool is the one whose
\* open() and probe made it CONNECTED.
HoldsOpenPool(r) ==
  /\ r # NoRec
  /\ status[r] = CONNECTED /\ pool[r] # None
  /\ \A t \in Tasks :
       rec[t] = r => pc[t] \notin {"c_open", "c_probe", "c_ret"}

\* C34: no pool is dropped open: connect() does not put a new pool in the
\* place of one that is open, and add_database does not replace a record
\* that holds an open pool.
C34_NoOpenPoolDropped ==
  [][ /\ \A t \in Tasks : connect_begin(t) => ~HoldsOpenPool(rec[t])
      /\ \A name \in Keys :
           add_database(name) => ~HoldsOpenPool(connections[name])
    ]_vars

\* C35: a record connected only through reconnect() never has a
\* retry_count above retry_attempts, overlapping reconnect() calls included.
C35_RetryCountWithinAttempts ==
  \A r \in Recs : retry_count[r] <= RetryAttempts

\* The loop's health check of record r has just returned False.
LoopCheckFailedOn(r) ==
  /\ pc[LoopTask] = "h_ret" /\ op[LoopTask] = "loop"
  /\ rec[LoopTask] = r /\ result[LoopTask] = False

\* C36: after a health check of the loop has failed on a record, and with
\* no caller acting, the record is eventually CONNECTED again or its
\* retry_count has reached retry_attempts.
C36_ReconnectsUntilCeiling ==
  \A r \in Recs :
    LoopCheckFailedOn(r) ~>
      (status[r] = CONNECTED \/ retry_count[r] >= RetryAttempts)

\* The guard accepted the query of the call in hand through a blacklist
\* rule that asks for confirmation (the warning-prefixed accept).
AcceptedWithWarning ==
  /\ InExecute /\ ~skip_safety
  /\ check_query(query).is_safe
  /\ Head(check_query(query).message) = "warning sign"

\* The statement of the call in hand was sent to the database.
StatementSent == \E i \in 1..Len(db_calls) : db_calls[i].call = "statement"

\* C37: a query that check_query accepts only through a blacklist rule with
\* allow_with_confirmation is sent to the database by execute only after a
\* confirmation callback has returned true for that call; without a callback
\* it is not sent.
C37_WarnedQueryConfirmed ==
  (AcceptedWithWarning /\ StatementSent) => confirm = "yes"

\* C38: execute sends a statement only when the active record is CONNECTED;
\* with no active record or one that is not CONNECTED the database is not
\* touched.
C38_ExecuteOnlyWhenConnected ==
  (InExecute /\ db_calls # <<>>) =>
     /\ get_active_connection # NoRec
     /\ status[get_active_connection] = CONNECTED

\* C39: execute awaits the confirmation callback only for a query accepted
\* through a blacklist rule with allow_with_confirmation; a query accepted
\* by a whitelist rule or with no matched rule never has the callback
\* awaited.
C39_CallbackOnlyForBlacklistRule ==
  (InExecute /\ (xpc = "x_confirm" \/ confirm # "not asked")) =>
     AcceptedWithWarning

\* The longest sleep of a reconnect() that passed the test of line 146
MaxBackoff == RetryDelay * 2 ^ (RetryAttempts - 1)

\* C40: every backoff sleep that reconnect() performs lasts at most
\* retry_delay * 2^(retry_attempts - 1) ms, whatever connect, reconnect and
\* health_check calls run on the record before and during it.
C40_BackoffBounded ==
  \A t \in Tasks :
    /\ delay[t] <= MaxBackoff
    /\ pc[t] = "r_sleep" =>
         /\ delay[t] >= RetryDelay
         /\ \E k \in 0..(RetryAttempts - 1) : delay[t] = RetryDelay * 2 ^ k

\* A reconnect() is in its longest sleep while a failed connect() of
\* another task has taken the record's retry_count to the ceiling.
C40_Witness ==
  \E t \in Tasks :
    /\ pc[t] = "r_sleep" /\ delay[t] = MaxBackoff
    /\ retry_count[rec[t]] >= RetryAttempts

====
